---- MODULE Spec2Model ----
(***************************************************************************)
(* Backup and restore of Lima VMs.                                         *)
(*                                                                         *)
(* The repository holds two BackupService classes:                         *)
(*   - the chunked service (src/src/backup/README.md, the listing that     *)
(*     starts at line 743): operations / backups / metrics maps, chunked   *)
(*     upload to a storage backend;                                        *)
(*   - the lib service (src/unnamed/part_011): activeBackups map and       *)
(*     backupHistory array, one archive file per backup.                   *)
(* A deployment runs one of them; impl says which.  Every async method is  *)
(* cut at its awaits: one action per stretch of code that runs between two *)
(* suspension points that touch shared state.                              *)
(***************************************************************************)
EXTENDS Integers, Sequences, FiniteSets, TLC

\* ---------------------------------------------------------------- bounds
MaxTime == 1            \* the clock runs over 0..MaxTime
MaxCorruptions == 1     \* simulated corruptions of stored chunks
MaxDays == 2            \* whole days the clock can be advanced by

\* ------------------------------------------------- configuration / inputs
BackupIds == {1, 2}                 \* createBackup invocations; the id of the backup each creates
RestoreCalls == {1, 2}              \* restoreBackup invocations
VmNames == {"vm1", "ghost"}         \* "ghost" is not listed by limactl until it is created
VmOrder == <<"vm1", "ghost">>       \* the order of `limactl list --json`
DiskImages == {<< >>, <<1, 2>>}       \* contents of disk.img
IVs == {5}                          \* crypto.randomBytes(16)
NoBackupId == 9                     \* an id no createBackup produced
Undefined == 0                      \* the JavaScript value undefined
timeout == 0                        \* config.timeout, in ms
TempMaxAge == 3600000               \* age in ms beyond which cleanupTempFiles unlinks
chunkSize == 2                      \* config.chunkSize
maxConcurrentBackups == 1           \* config.maxConcurrentBackups
maxConcurrentRestores == 1          \* config.maxConcurrentRestores
GzMagic == 31                       \* first byte of a gzip stream
BrMagic == 27                       \* first byte of the modelled brotli stream
ByteMod == 256
TarMagic == 117                     \* header byte of the modelled tar stream
DayMs == 86400000                   \* one day of Date arithmetic, in ms
DeleteCalls == {1, 2}               \* deleteBackup invocations of callers
RetentionCall == 0                  \* the deleteBackup invocation of applyRetentionPolicy
retentionDaily == 1                 \* config.retention.daily, in days
retentionWeekly == 2                \* config.retention.weekly, in days
ScheduleTypes == {"daily", "weekly"}  \* the classes startScheduledBackups registers

\* options of the lib service's createBackup
LibOptions ==
  { [type |-> "full", compression |-> TRUE, encryption |-> TRUE, retentionDays |-> 30],
    [type |-> "incremental", compression |-> FALSE, encryption |-> FALSE, retentionDays |-> 0],
    [type |-> "snapshot", compression |-> TRUE, encryption |-> FALSE, retentionDays |-> 30] }

\* the configuration the constructor builds from an empty config, given a key
DefaultConfig ==
  [compression |-> "gzip", encryption |-> "aes256", encryptionKey |-> TRUE,
   requireIntegrityCheck |-> TRUE]

\* [compression, encryption, encryptionKey present, requireIntegrityCheck]
Configs ==
  { [compression |-> "none", encryption |-> "none", encryptionKey |-> TRUE,
     requireIntegrityCheck |-> TRUE],
    DefaultConfig,
    [compression |-> "brotli", encryption |-> "aes256", encryptionKey |-> FALSE,
     requireIntegrityCheck |-> FALSE],
    [compression |-> "none", encryption |-> "aes256", encryptionKey |-> TRUE,
     requireIntegrityCheck |-> FALSE] }

VARIABLES
  impl,        \* "chunked" or "lib": the class that was constructed
  now,         \* Date.now()
  vm,          \* limactl's view: vm name -> "Running" | "Stopped" | "Absent"
  disk,        \* vm name -> bytes of its disk.img
  config,      \* this.config of the chunked service
  backups,     \* this.backups: backup id -> BackupMetadata
  operations,  \* this.operations: operation id -> Operation
  metrics,     \* this.metrics
  storage,     \* storage backend: key -> bytes
  scratch,     \* files under config.tempDir: path -> mtime
  savedMeta,   \* ids with a metadata/<id>.json file
  bk,          \* per createBackup invocation: locals and position
  rs,          \* per restoreBackup invocation: locals and position
  corruptions, \* number of simulated corruptions so far
  activeBackups,  \* lib service: this.activeBackups, backup id -> backup record
  backupHistory,  \* lib service: this.backupHistory
  libFiles,    \* lib service: archives under storagePath/completed, backup id -> bytes
  del,         \* per deleteBackup invocation: locals and position
  sched        \* the invocation of performScheduledBackup: locals and position

vars == <<impl, now, vm, disk, config, backups, operations, metrics, storage,
          scratch, savedMeta, bk, rs, corruptions, activeBackups, backupHistory,
          libFiles, del, sched>>

maintVars == <<del, sched>>

libVars == <<activeBackups, backupHistory, libFiles>>

chunkedVars == <<config, backups, operations, metrics, storage, savedMeta, corruptions>>

\* ---------------------------------------------------------------- helpers
MapSet(m, k, v) == [x \in (DOMAIN m) \cup {k} |-> IF x = k THEN v ELSE m[x]]

MapDel(m, k) == [x \in (DOMAIN m) \ {k} |-> m[x]]

EmptyMap == [x \in {} |-> 0]

RECURSIVE SumSizes(_, _)
SumSizes(m, ks) ==
  IF ks = {} THEN 0
  ELSE LET k == CHOOSE x \in ks : TRUE IN m[k].size + SumSizes(m, ks \ {k})

Min(a, b) == IF a < b THEN a ELSE b

\* sha256: modelled as collision free
Hash(s) == <<"sha256", s>>

\* zlib.createGzip / createBrotliCompress piped over the file
Compress(s, codec) ==
  IF codec = "gzip" THEN <<GzMagic>> \o s
  ELSE IF codec = "brotli" THEN <<BrMagic>> \o s
  ELSE s

\* zlib.createGunzip / createBrotliDecompress: [ok, data]
Decompress(s, codec) ==
  LET magic == IF codec = "gzip" THEN GzMagic ELSE BrMagic IN
  IF codec \notin {"gzip", "brotli"} THEN [ok |-> TRUE, data |-> s]
  ELSE IF Len(s) > 0 /\ s[1] = magic THEN [ok |-> TRUE, data |-> Tail(s)]
  ELSE [ok |-> FALSE, data |-> << >>]

\* createCipheriv over the file, IV written first
Encrypt(s, iv) == <<iv>> \o [i \in 1..Len(s) |-> (s[i] + iv) % ByteMod]

\* reads the IV from the head of the file: [ok, data]
Decrypt(s) ==
  IF Len(s) = 0 THEN [ok |-> FALSE, data |-> << >>]
  ELSE [ok |-> TRUE,
        data |-> [i \in 1..(Len(s) - 1) |-> (s[i + 1] - s[1] + ByteMod) % ByteMod]]

\* file names are kept as their dot separated parts
CompressedPath(f, codec) == Append(f, IF codec = "gzip" THEN "gz" ELSE "br")

EncryptedPath(f) == Append(f, "enc")

\* the i-th (0 based) piece read with highWaterMark = size
Piece(s, size, i) == SubSeq(s, i * size + 1, Min(Len(s), (i + 1) * size))

NumChunks(s, size) == (Len(s) + size - 1) \div size

\* a chunk id that leaves the index out
ChunkIdNoIndex(b, i) == <<b, 0>>

\* `${metadata.id}-chunk-${index padded}`
ChunkId(b, i) == <<b, i>>

\* `backups/${backupId}/chunks/${chunkId}`
Key(b, chunkId) == <<b, chunkId>>

\* the share that is left, in place of the share that is done
RoundPctLeft(x, y) == (200 * (y - x) + y) \div (2 * y)

\* Math.round(x / y * 100)
RoundPct(x, y) == (200 * x + y) \div (2 * y)

OpId(c) == <<"op", c>>

RestoreOpId(t) == <<"op-restore", t>>

BackupDir(b) == <<"backup", b>>

RestoreDir(b) == <<"restore", b>>

\* the later of the two cleanupTempFiles methods of the class is the one in
\* effect: it unlinks the entries of the directory older than one hour
CleanupTempFiles(files, dir) ==
  [p \in {q \in DOMAIN files : ~(q[1] = dir /\ now - files[q] > TempMaxAge)} |-> files[p]]

\* ------------------------------------------------------------------ Init
IdleBackup ==
  [pc |-> "idle", vmName |-> "vm1", stopVm |-> FALSE, wasRunning |-> FALSE,
   startTime |-> 0, type |-> "manual", tags |-> {},
   meta |-> [status |-> "none"], archive |-> << >>,
   file |-> << >>, chunks |-> << >>, error |-> "none", stopped |-> FALSE,
   startAttempted |-> FALSE, result |-> "none"]

IdleRestore ==
  [pc |-> "idle", backupId |-> NoBackupId, target |-> "vm1", op |-> [status |-> "none"],
   meta |-> [status |-> "none"], idx |-> 0, data |-> << >>, file |-> << >>,
   keysRead |-> {}, vmOps |-> 0, diskWrites |-> 0, stopped |-> FALSE,
   startAttempted |-> FALSE, error |-> "none", result |-> "none"]

IdleLibBackup ==
  [pc |-> "idle", vmName |-> "vm1", vmStopped |-> FALSE, failing |-> "none",
   opts |-> [type |-> "full"], archive |-> << >>, old |-> {}, error |-> "none", stopped |-> FALSE,
   startAttempted |-> FALSE, result |-> "none"]

IdleLibRestore ==
  [pc |-> "idle", backupId |-> NoBackupId, target |-> "vm1", overwrite |-> FALSE,
   vmOps |-> 0, diskWrites |-> 0, stopped |-> FALSE, startAttempted |-> FALSE,
   error |-> "none", result |-> "none"]

IdleDelete ==
  [pc |-> "idle", backupId |-> NoBackupId, meta |-> [status |-> "none"], idx |-> 0,
   attempted |-> {}, error |-> "none"]

IdleSched ==
  [pc |-> "idle", type |-> "none", vms |-> << >>, idx |-> 0, cur |-> 0,
   attempted |-> << >>, slots |-> << >>, cutoffAt |-> -1, toDelete |-> << >>]

InitMetrics ==
  [totalBackups |-> 0, successfulBackups |-> 0, failedBackups |-> 0,
   totalRestores |-> 0, successfulRestores |-> 0, failedRestores |-> 0,
   storageUsed |-> 0]

Init ==
  /\ impl \in {"chunked", "lib"}
  /\ now = 0
  /\ vm = [v \in VmNames |-> IF v = "ghost" THEN "Absent" ELSE "Running"]
  /\ disk \in [VmNames -> DiskImages]
  /\ disk["ghost"] = << >>
  /\ config \in Configs
  /\ impl = "lib" => config = DefaultConfig /\ disk["vm1"] # << >>
  /\ backups = EmptyMap
  /\ operations = EmptyMap
  /\ metrics = InitMetrics
  /\ storage = EmptyMap
  /\ scratch = EmptyMap
  /\ savedMeta = {}
  /\ bk = [c \in BackupIds |-> IF impl = "lib" THEN IdleLibBackup ELSE IdleBackup]
  /\ rs = [r \in RestoreCalls |-> IF impl = "lib" THEN IdleLibRestore ELSE IdleRestore]
  /\ corruptions = 0
  /\ activeBackups = EmptyMap
  /\ backupHistory = << >>
  /\ libFiles = EmptyMap
  /\ del = [d \in {RetentionCall} \cup DeleteCalls |-> IdleDelete]
  /\ sched = IdleSched

\* ------------------------------------- chunked service: loadExistingBackups
\* the archive of the backup whose metadata file start() finds
LoadedArchives == {<< >>, <<1, 2, 3, 4, 5>>}

LoadedId == 1

\* the chunk entries splitAndUpload recorded for the archive, in its order
LoadedChunks(archive) ==
  [i \in 1..NumChunks(archive, chunkSize) |->
     [id |-> ChunkId(LoadedId, i - 1), backupId |-> LoadedId, index |-> i - 1,
      size |-> Len(Piece(archive, chunkSize, i - 1)),
      checksum |-> Hash(Piece(archive, chunkSize, i - 1))]]

ChunkOrders(n) == {p \in [1..n -> 1..n] : \A i, j \in 1..n : p[i] = p[j] => i = j}

\* the metadata file of a completed backup of vm1, made without compression
\* and encryption, its chunks listed in the order p
LoadedMetadata(archive, p) ==
  [id |-> LoadedId, vmName |-> "vm1", type |-> "manual", tags |-> {},
   createdAt |-> 0, compression |-> "none", encryption |-> "none",
   chunkSize |-> chunkSize, status |-> "completed", size |-> Len(archive),
   chunks |-> [i \in 1..NumChunks(archive, chunkSize) |-> LoadedChunks(archive)[p[i]]],
   checksum |-> Hash(archive), integrityVerified |-> TRUE]

\* the state after start(): loadExistingBackups has read the metadata file of
\* one backup, whose chunks are in the storage backend
InitLoaded ==
  /\ impl = "chunked"
  /\ now = 0
  /\ vm = [v \in VmNames |-> IF v = "ghost" THEN "Absent" ELSE "Running"]
  /\ disk = [v \in VmNames |-> << >>]
  /\ config = [compression |-> "none", encryption |-> "none", encryptionKey |-> TRUE,
               requireIntegrityCheck |-> TRUE]
  /\ \E archive \in LoadedArchives :
       /\ \E p \in ChunkOrders(NumChunks(archive, chunkSize)) :
            backups = [b \in {LoadedId} |-> LoadedMetadata(archive, p)]
       /\ storage = [k \in {Key(LoadedId, ChunkId(LoadedId, i - 1)) :
                              i \in 1..NumChunks(archive, chunkSize)} |->
                       Piece(archive, chunkSize, k[2][2])]
       /\ metrics = [InitMetrics EXCEPT !.storageUsed = Len(archive)]
  /\ operations = EmptyMap
  /\ scratch = EmptyMap
  /\ savedMeta = {LoadedId}
  /\ bk = [c \in BackupIds |-> IdleBackup]
  /\ rs = [r \in RestoreCalls |-> IdleRestore]
  /\ corruptions = 0
  /\ activeBackups = EmptyMap
  /\ backupHistory = << >>
  /\ libFiles = EmptyMap
  /\ del = [d \in {RetentionCall} \cup DeleteCalls |-> IdleDelete]
  /\ sched = IdleSched

\* ------------------------------------------- chunked service: createBackup
\* getVmInfo finds every VM
VmMissingNever(v) == FALSE

\* getVmInfo resolves to null: limactl lists no VM of that name
VmMissing(v) == vm[v] = "Absent"

NewOperation(c, b) ==
  [id |-> OpId(c), owner |-> c, type |-> "backup", vmName |-> b.vmName, backupId |-> c,
   status |-> "running", startTime |-> b.startTime, endTime |-> -1,
   progress |-> 0, size |-> 0, error |-> "none"]

\* a metadata that is created as verified
NewMetadataVerified(c, b) ==
  [id |-> c, vmName |-> b.vmName, type |-> b.type, tags |-> b.tags,
   createdAt |-> now, compression |-> config.compression, encryption |-> config.encryption,
   chunkSize |-> chunkSize, status |-> "creating", size |-> 0,
   chunks |-> << >>, checksum |-> "none", integrityVerified |-> TRUE]

NewMetadata(c, b) ==
  [id |-> c, vmName |-> b.vmName, type |-> b.type, tags |-> b.tags,
   createdAt |-> now, compression |-> config.compression, encryption |-> config.encryption,
   chunkSize |-> chunkSize, status |-> "creating", size |-> 0,
   chunks |-> << >>, checksum |-> "none", integrityVerified |-> FALSE]

\* the locals of an invocation are dead once it has returned or thrown
Retire(b) ==
  [b EXCEPT !.meta = [status |-> "none"], !.archive = << >>, !.file = << >>,
            !.chunks = << >>, !.wasRunning = FALSE, !.startTime = 0, !.stopVm = FALSE]

\* the catch block of createBackup
FailedOperations(ops, id, err) ==
  IF id \in DOMAIN ops
  THEN [ops EXCEPT ![id] = [@ EXCEPT !.status = "failed", !.endTime = now, !.error = err]]
  ELSE ops

\* a catch block that counts the failure without counting the call
BackupCatchUncounted(c, b, err) ==
  /\ operations' = FailedOperations(operations, OpId(c), err)
  /\ metrics' = [metrics EXCEPT !.failedBackups = @ + 1]
  /\ bk' = [bk EXCEPT ![c] = [Retire(b) EXCEPT !.pc = "failed", !.result = "error",
                                                !.error = err]]

BackupCatch(c, b, err) ==
  /\ operations' = FailedOperations(operations, OpId(c), err)
  /\ metrics' = [metrics EXCEPT !.totalBackups = @ + 1, !.failedBackups = @ + 1]
  /\ bk' = [bk EXCEPT ![c] = [Retire(b) EXCEPT !.pc = "failed", !.result = "error",
                                                !.error = err]]

\* createBackup without its finally block
BackupThrowNoFinally(c, b, err) == BackupCatch(c, b, err)

\* an exception inside the try ... finally of createBackup: the finally block
\* awaits startVm before the catch block runs
BackupThrow(c, b, err) ==
  IF b.stopVm /\ b.wasRunning
  THEN /\ bk' = [bk EXCEPT ![c] = [b EXCEPT !.pc = "restartAfterFail", !.error = err,
                                            !.meta = [status |-> "none"], !.archive = << >>,
                                            !.file = << >>, !.chunks = << >>]]
       /\ UNCHANGED <<operations, metrics>>
  ELSE BackupCatch(c, b, err)

\* createBackup up to the await of getVmInfo
StartBackup(b, v, sv, type, tags) ==
  [b EXCEPT !.pc = "getVmInfo", !.vmName = v, !.stopVm = sv, !.startTime = now,
            !.type = type, !.tags = tags]

CreateBackup(c, v, sv) ==
  /\ impl = "chunked"
  /\ bk[c].pc = "idle"
  /\ bk' = [bk EXCEPT ![c] = StartBackup(@, v, sv, "manual", {})]
  /\ UNCHANGED maintVars
  /\ UNCHANGED libVars
  /\ UNCHANGED <<impl, now, vm, disk, config, backups, operations, metrics,
                 storage, scratch, savedMeta, rs, corruptions>>

BackupGetVmInfo(c, ok) ==
  /\ impl = "chunked"
  /\ bk[c].pc = "getVmInfo"
  /\ LET b == bk[c] IN
     IF ~ok THEN BackupCatch(c, b, "Failed to get VM info")
     ELSE IF VmMissing(b.vmName) THEN BackupCatch(c, b, "VM not found")
     ELSE LET running == vm[b.vmName] = "Running"
              b2 == [b EXCEPT !.meta = NewMetadata(c, b), !.wasRunning = running,
                              !.pc = IF b.stopVm /\ running THEN "stopVm" ELSE "prepare"]
          IN /\ operations' = MapSet(operations, OpId(c), NewOperation(c, b))
             /\ bk' = [bk EXCEPT ![c] = b2]
             /\ UNCHANGED metrics
  /\ UNCHANGED maintVars
  /\ UNCHANGED libVars
  /\ UNCHANGED <<impl, now, vm, disk, config, backups, storage, scratch,
                 savedMeta, rs, corruptions>>

BackupStopVm(c, ok) ==
  /\ impl = "chunked"
  /\ bk[c].pc = "stopVm"
  /\ LET b == bk[c] IN
     IF ok
     THEN /\ vm' = [vm EXCEPT ![b.vmName] = "Stopped"]
          /\ bk' = [bk EXCEPT ![c] = [b EXCEPT !.pc = "prepare", !.stopped = TRUE]]
          /\ UNCHANGED <<operations, metrics>>
     ELSE /\ BackupCatch(c, b, "Failed to stop VM")
          /\ UNCHANGED vm
  /\ UNCHANGED maintVars
  /\ UNCHANGED libVars
  /\ UNCHANGED <<impl, now, disk, config, backups, storage, scratch,
                 savedMeta, rs, corruptions>>

\* performBackup up to the call of splitAndUpload: mkdir, getVmDiskPath,
\* snapshot, copyVmDisk, compressFile, encryptFile.  stage is the step that
\* fails ("none": all succeed).
BackupPrepare(c, stage, iv) ==
  /\ impl = "chunked"
  /\ bk[c].pc = "prepare"
  /\ LET b == bk[c]
         dir == BackupDir(b.meta.id)
         tarFile == <<"backup", "tar">>
         doCompress == b.meta.compression # "none"
         doEncrypt == b.meta.encryption # "none" /\ config.encryptionKey
         compressedFile == IF doCompress THEN CompressedPath(tarFile, b.meta.compression)
                           ELSE tarFile
         encryptedFile == IF doEncrypt THEN EncryptedPath(compressedFile) ELSE compressedFile
         raw == disk[b.vmName]
         compressed == Compress(raw, b.meta.compression)
         encrypted == IF doEncrypt THEN Encrypt(compressed, iv) ELSE compressed
         made == IF stage = "copy" THEN {}
                 ELSE IF stage = "compress" THEN {tarFile}
                 ELSE IF stage = "encrypt" THEN {tarFile, compressedFile}
                 ELSE {tarFile, compressedFile, encryptedFile}
         files == [p \in (DOMAIN scratch) \cup {<<dir, f>> : f \in made} |->
                     IF p[1] = dir /\ p[2] \in made THEN now ELSE scratch[p]]
         failed == \/ stage = "copy"
                   \/ stage = "compress" /\ doCompress
                   \/ stage = "encrypt" /\ doEncrypt
     IN /\ stage = "compress" => doCompress
        /\ stage = "encrypt" => doEncrypt
        /\ IF failed
           THEN /\ scratch' = CleanupTempFiles(files, dir)
                /\ BackupThrow(c, b, "backup step failed")
           ELSE /\ scratch' = files
                /\ bk' = [bk EXCEPT ![c] =
                            [b EXCEPT !.archive = encrypted, !.file = encryptedFile,
                                      !.pc = IF NumChunks(encrypted, b.meta.chunkSize) = 0
                                             THEN "finish" ELSE "upload"]]
                /\ UNCHANGED <<operations, metrics>>
  /\ UNCHANGED maintVars
  /\ UNCHANGED libVars
  /\ UNCHANGED <<impl, now, vm, disk, config, backups, storage, savedMeta,
                 rs, corruptions>>

\* one iteration of the for await loop of splitAndUpload
BackupUploadChunk(c, ok) ==
  /\ impl = "chunked"
  /\ bk[c].pc = "upload"
  /\ LET b == bk[c]
         chunkIndex == Len(b.chunks)
         chunk == Piece(b.archive, b.meta.chunkSize, chunkIndex)
         chunkId == ChunkId(b.meta.id, chunkIndex)
         chunkData == [id |-> chunkId, backupId |-> b.meta.id, index |-> chunkIndex,
                       size |-> Len(chunk), checksum |-> Hash(chunk)]
         bytesRead == Min(Len(b.archive), (chunkIndex + 1) * b.meta.chunkSize)
         op == operations[OpId(c)]
     IN IF ok
        THEN /\ storage' = MapSet(storage, Key(b.meta.id, chunkId), chunk)
             /\ operations' = MapSet(operations, OpId(c),
                                [op EXCEPT !.progress = RoundPct(bytesRead, Len(b.archive)),
                                           !.size = bytesRead])
             /\ bk' = [bk EXCEPT ![c] =
                         [b EXCEPT !.chunks = Append(@, chunkData),
                                   !.pc = IF chunkIndex + 1 = NumChunks(b.archive, b.meta.chunkSize)
                                          THEN "finish" ELSE "upload"]]
             /\ UNCHANGED <<metrics, scratch>>
        ELSE /\ scratch' = CleanupTempFiles(scratch, BackupDir(b.meta.id))
             /\ BackupThrow(c, b, "upload failed")
             /\ UNCHANGED storage
  /\ UNCHANGED maintVars
  /\ UNCHANGED libVars
  /\ UNCHANGED <<impl, now, vm, disk, config, backups, savedMeta, rs, corruptions>>

\* verifyBackupIntegrity; dl is whether the downloads succeed
VerifyBackupIntegrity(chunks, dl) ==
  IF ~config.requireIntegrityCheck THEN TRUE
  ELSE /\ dl
       /\ \A i \in 1..Len(chunks) :
            LET key == Key(chunks[i].backupId, chunks[i].id) IN
            /\ key \in DOMAIN storage
            /\ Hash(storage[key]) = chunks[i].checksum

\* performBackup from calculateFileChecksum to its return, and the update of
\* metadata in createBackup up to the await of saveBackupMetadata
BackupFinish(c, ok, dl) ==
  /\ impl = "chunked"
  /\ bk[c].pc = "finish"
  /\ LET b == bk[c]
         dir == BackupDir(b.meta.id)
         cleaned == CleanupTempFiles(scratch, dir)
         statOk == <<dir, b.file>> \in DOMAIN cleaned
         meta2 == [b.meta EXCEPT !.status = "completed", !.size = Len(b.archive),
                                 !.chunks = b.chunks, !.checksum = Hash(b.archive),
                                 !.integrityVerified = VerifyBackupIntegrity(b.chunks, dl)]
     IN /\ scratch' = cleaned
        /\ IF ok /\ statOk
           THEN /\ bk' = [bk EXCEPT ![c] = [b EXCEPT !.meta = meta2, !.pc = "save"]]
                /\ UNCHANGED <<operations, metrics>>
           ELSE BackupThrow(c, b, "backup step failed")
  /\ UNCHANGED maintVars
  /\ UNCHANGED libVars
  /\ UNCHANGED <<impl, now, vm, disk, config, backups, storage, savedMeta,
                 rs, corruptions>>

\* collectMetrics, as called by updateMetrics
CollectMetrics(m, bs) == [m EXCEPT !.storageUsed = SumSizes(bs, DOMAIN bs)]

\* a record put in the store with the status createBackup built it with
StoredMetadataAsBuilt(b) == [b.meta EXCEPT !.status = "creating"]

\* the object of this.backups.set(backupId, metadata): the metadata of the
\* call, as updated after performBackup returned
StoredMetadata(b) == b.meta

\* createBackup from saveBackupMetadata to the return statement
BackupSave(c, ok) ==
  /\ impl = "chunked"
  /\ bk[c].pc = "save"
  /\ LET b == bk[c]
         op == operations[OpId(c)]
         newBackups == MapSet(backups, c, StoredMetadata(b))
     IN IF ok
        THEN /\ savedMeta' = savedMeta \cup {c}
             /\ backups' = newBackups
             /\ operations' = MapSet(operations, OpId(c),
                                [op EXCEPT !.status = "completed", !.endTime = now,
                                           !.size = b.meta.size, !.progress = 100])
             /\ metrics' = CollectMetrics(
                             [metrics EXCEPT !.totalBackups = @ + 1,
                                             !.successfulBackups = @ + 1], newBackups)
             /\ bk' = [bk EXCEPT ![c] =
                         IF b.stopVm /\ b.wasRunning
                         THEN [b EXCEPT !.result = "ok", !.pc = "restartAfterOk",
                                        !.meta = [status |-> "none"], !.archive = << >>,
                                        !.file = << >>, !.chunks = << >>]
                         ELSE [Retire(b) EXCEPT !.result = "ok", !.pc = "done"]]
        ELSE /\ BackupThrow(c, b, "failed to save metadata")
             /\ UNCHANGED <<savedMeta, backups>>
  /\ UNCHANGED maintVars
  /\ UNCHANGED libVars
  /\ UNCHANGED <<impl, now, vm, disk, config, storage, scratch, rs, corruptions>>

\* the finally block of createBackup: await this.startVm(vmName)
BackupRestartVm(c, ok) ==
  /\ impl = "chunked"
  /\ bk[c].pc \in {"restartAfterOk", "restartAfterFail"}
  /\ LET b == [bk[c] EXCEPT !.startAttempted = TRUE] IN
     /\ vm' = IF ok THEN [vm EXCEPT ![b.vmName] = "Running"] ELSE vm
     /\ IF ok /\ b.pc = "restartAfterOk"
        THEN /\ bk' = [bk EXCEPT ![c] = [Retire(b) EXCEPT !.pc = "done"]]
             /\ UNCHANGED <<operations, metrics>>
        ELSE BackupCatch(c, b, IF ok THEN b.error ELSE "Failed to start VM")
  /\ UNCHANGED maintVars
  /\ UNCHANGED libVars
  /\ UNCHANGED <<impl, now, disk, config, backups, storage, scratch, savedMeta,
                 rs, corruptions>>

\* ----------------------------------------- chunked service: restoreBackup
\* An Operation is an object; this.operations maps an id to one object.  Two
\* restores that start in the same millisecond get the same id, and then
\* operations.set replaces the object the map holds.  rs[r].op is the
\* invocation's own object while the map holds another one under its id.
OwnOp(r) ==
  LET id == rs[r].op.id IN
  IF id \in DOMAIN operations /\ operations[id].type = "restore" /\ operations[id].owner = r
  THEN operations[id] ELSE rs[r].op

\* this.operations.set(op.id, op) by restore r, with r's locals becoming loc
SetRestoreOp(r, op, loc) ==
  /\ operations' = MapSet(operations, op.id, op)
  /\ rs' = [x \in RestoreCalls |->
              IF x = r THEN [loc EXCEPT !.op = op]
              ELSE IF op.id \in DOMAIN operations /\ operations[op.id].owner = x
                      /\ rs[x].op.status # "none" /\ rs[x].op.id = op.id
              THEN [rs[x] EXCEPT !.op = operations[op.id]]
              ELSE rs[x]]

RetireRestore(l) ==
  [l EXCEPT !.meta = [status |-> "none"], !.idx = 0, !.data = << >>, !.file = << >>]

\* the catch block of restoreBackup: the operation is looked up under
\* `op-restore-${Date.now()}`, with the time of the failure
RestoreCatch(r, loc, err) ==
  LET id == RestoreOpId(now)
      l2 == [RetireRestore(loc) EXCEPT !.pc = "failed", !.result = "error", !.error = err]
  IN /\ metrics' = [metrics EXCEPT !.totalRestores = @ + 1, !.failedRestores = @ + 1]
     /\ IF id \in DOMAIN operations
        THEN LET hit == [operations[id] EXCEPT !.status = "failed", !.endTime = now,
                                                !.error = err]
             IN /\ operations' = [operations EXCEPT ![id] = hit]
                /\ rs' = [rs EXCEPT ![r] = IF hit.owner = r THEN [l2 EXCEPT !.op = hit] ELSE l2]
        ELSE /\ rs' = [rs EXCEPT ![r] = l2]
             /\ UNCHANGED operations

\* the catch block of performRestore, then the one of restoreBackup
RestoreThrow(r, loc, err) ==
  /\ scratch' = CleanupTempFiles(scratch, RestoreDir(loc.meta.id))
  /\ RestoreCatch(r, loc, err)

RestoreBackup(r, id, optVm) ==
  /\ impl = "chunked"
  /\ rs[r].pc = "idle"
  /\ LET loc == [rs[r] EXCEPT !.backupId = id] IN
     IF id \notin DOMAIN backups
     THEN RestoreCatch(r, loc, "Backup not found")
     ELSE LET metadata == backups[id]
              op == [id |-> RestoreOpId(now), owner |-> r, type |-> "restore",
                     vmName |-> IF optVm = "none" THEN metadata.vmName ELSE optVm,
                     backupId |-> id, status |-> "running", startTime |-> now,
                     endTime |-> -1, progress |-> 0, size |-> 0, error |-> "none"]
          IN /\ SetRestoreOp(r, op, [loc EXCEPT !.meta = metadata, !.target = op.vmName,
                                                !.pc = "download"])
             /\ UNCHANGED metrics
  /\ UNCHANGED maintVars
  /\ UNCHANGED libVars
  /\ UNCHANGED <<impl, now, vm, disk, config, backups, storage, scratch, savedMeta,
                 bk, corruptions>>

\* a sort by descending index: (a, b) => b.index - a.index
RECURSIVE SortByIndexDesc(_)
SortByIndexDesc(cs) ==
  IF Len(cs) <= 1 THEN cs
  ELSE LET rest == SortByIndexDesc(Tail(cs))
           h == Head(cs)
           k == Cardinality({i \in 1..Len(rest) : rest[i].index > h.index})
       IN SubSeq(rest, 1, k) \o <<h>> \o SubSeq(rest, k + 1, Len(rest))

\* metadata.chunks.sort((a, b) => a.index - b.index): insertion of each
\* element before the first element with a larger index
RECURSIVE SortByIndex(_)
SortByIndex(cs) ==
  IF Len(cs) <= 1 THEN cs
  ELSE LET rest == SortByIndex(Tail(cs))
           h == Head(cs)
           k == Cardinality({i \in 1..Len(rest) : rest[i].index < h.index})
       IN SubSeq(rest, 1, k) \o <<h>> \o SubSeq(rest, k + 1, Len(rest))

\* performRestore's mkdir, then downloadAndReassembleChunks: the sort and one
\* iteration of the loop (none when there is no chunk), up to the return
RestoreDownloadChunk(r, ok) ==
  /\ impl = "chunked"
  /\ rs[r].pc = "download"
  /\ LET loc == rs[r]
         sortedChunks == SortByIndex(loc.meta.chunks)
         n == Len(sortedChunks)
         tempFile == <<RestoreDir(loc.meta.id), <<"assembled", "enc">> >>
         key == Key(Undefined, sortedChunks[loc.idx + 1].id)
         read == [loc EXCEPT !.keysRead = IF n = 0 THEN @ ELSE @ \cup {key},
                             !.file = tempFile[2]]
     IN /\ backups' = IF loc.meta.id \in DOMAIN backups
                      THEN [backups EXCEPT ![loc.meta.id].chunks = SortByIndex(@)]
                      ELSE backups
        /\ IF ~ok \/ (n > 0 /\ key \notin DOMAIN storage)
           THEN /\ RestoreThrow(r, read, IF ok THEN "chunk not found" ELSE "download failed")
           ELSE /\ scratch' = MapSet(scratch, tempFile, now)
                /\ IF n = 0
                   THEN /\ rs' = [rs EXCEPT ![r] = [read EXCEPT !.pc = "decode"]]
                        /\ UNCHANGED operations
                   ELSE SetRestoreOp(r, [OwnOp(r) EXCEPT !.progress = RoundPct(loc.idx + 1, n)],
                                     [read EXCEPT !.data = @ \o storage[key],
                                                  !.idx = @ + 1,
                                                  !.pc = IF loc.idx + 1 = n THEN "decode"
                                                         ELSE "download"])
                /\ UNCHANGED metrics
  /\ UNCHANGED maintVars
  /\ UNCHANGED libVars
  /\ UNCHANGED <<impl, now, vm, disk, config, storage, savedMeta, bk, corruptions>>

\* filePath.replace('.enc', '')
StripEnc(f) == SelectSeq(f, LAMBDA x : x # "enc")

\* filePath.replace(/\.(gz|br)$/, '')
StripGzBr(f) ==
  IF Len(f) > 1 /\ f[Len(f)] \in {"gz", "br"} THEN SubSeq(f, 1, Len(f) - 1) ELSE f

\* decryptFile and decompressFile of performRestore
RestoreDecode(r, ok) ==
  /\ impl = "chunked"
  /\ rs[r].pc = "decode"
  /\ LET loc == rs[r]
         dir == RestoreDir(loc.meta.id)
         doDecrypt == loc.meta.encryption # "none" /\ config.encryptionKey
         decryptedFile == IF doDecrypt THEN StripEnc(loc.file) ELSE loc.file
         decrypted == IF doDecrypt THEN Decrypt(loc.data) ELSE [ok |-> TRUE, data |-> loc.data]
         doDecompress == loc.meta.compression # "none"
         decompressedFile == IF doDecompress THEN StripGzBr(decryptedFile) ELSE decryptedFile
         decompressed == IF doDecompress THEN Decompress(decrypted.data, loc.meta.compression)
                         ELSE decrypted
         made == {<<dir, decryptedFile>>, <<dir, decompressedFile>>}
     IN IF ok /\ decrypted.ok /\ decompressed.ok
        THEN /\ scratch' = [p \in (DOMAIN scratch) \cup made |->
                              IF p \in made THEN now ELSE scratch[p]]
             /\ rs' = [rs EXCEPT ![r] = [loc EXCEPT !.data = decompressed.data,
                                                    !.file = decompressedFile,
                                                    !.pc = "getVmInfo"]]
             /\ UNCHANGED <<operations, metrics>>
        ELSE RestoreThrow(r, loc, "decode failed")
  /\ UNCHANGED maintVars
  /\ UNCHANGED libVars
  /\ UNCHANGED <<impl, now, vm, disk, config, backups, storage, savedMeta, bk,
                 corruptions>>

RestoreGetVmInfo(r, ok) ==
  /\ impl = "chunked"
  /\ rs[r].pc = "getVmInfo"
  /\ LET loc == rs[r] IN
     IF ok
     THEN /\ rs' = [rs EXCEPT ![r] = [loc EXCEPT !.pc = IF vm[loc.target] = "Running"
                                                       THEN "stopVm" ELSE "copy"]]
          /\ UNCHANGED <<operations, metrics, scratch>>
     ELSE RestoreThrow(r, loc, "Failed to get VM info")
  /\ UNCHANGED maintVars
  /\ UNCHANGED libVars
  /\ UNCHANGED <<impl, now, vm, disk, config, backups, storage, savedMeta, bk,
                 corruptions>>

RestoreStopVm(r, ok) ==
  /\ impl = "chunked"
  /\ rs[r].pc = "stopVm"
  /\ LET loc == [rs[r] EXCEPT !.vmOps = @ + 1] IN
     IF ok
     THEN /\ vm' = [vm EXCEPT ![loc.target] = "Stopped"]
          /\ rs' = [rs EXCEPT ![r] = [loc EXCEPT !.stopped = TRUE, !.pc = "copy"]]
          /\ UNCHANGED <<operations, metrics, scratch>>
     ELSE /\ RestoreThrow(r, loc, "Failed to stop VM")
          /\ UNCHANGED vm
  /\ UNCHANGED maintVars
  /\ UNCHANGED libVars
  /\ UNCHANGED <<impl, now, disk, config, backups, storage, savedMeta, bk, corruptions>>

\* getVmDiskPath and fs.copyFile onto the disk image
RestoreCopy(r, ok) ==
  /\ impl = "chunked"
  /\ rs[r].pc = "copy"
  /\ LET loc == rs[r] IN
     IF ok /\ vm[loc.target] # "Absent"
     THEN /\ disk' = [disk EXCEPT ![loc.target] = loc.data]
          /\ rs' = [rs EXCEPT ![r] = [loc EXCEPT !.diskWrites = @ + 1, !.pc = "startVm"]]
          /\ UNCHANGED <<operations, metrics, scratch>>
     ELSE /\ RestoreThrow(r, loc, "Failed to replace VM disk")
          /\ UNCHANGED disk
  /\ UNCHANGED maintVars
  /\ UNCHANGED libVars
  /\ UNCHANGED <<impl, now, vm, config, backups, storage, savedMeta, bk, corruptions>>

\* startVm, cleanupTempFiles, and restoreBackup from the return of
\* performRestore to its own return
RestoreStartVm(r, ok) ==
  /\ impl = "chunked"
  /\ rs[r].pc = "startVm"
  /\ LET loc == [rs[r] EXCEPT !.vmOps = @ + 1, !.startAttempted = TRUE] IN
     IF ok
     THEN /\ vm' = [vm EXCEPT ![loc.target] = "Running"]
          /\ scratch' = CleanupTempFiles(scratch, RestoreDir(loc.meta.id))
          /\ SetRestoreOp(r, [OwnOp(r) EXCEPT !.status = "completed", !.endTime = now,
                                              !.progress = 100],
                          [RetireRestore(loc) EXCEPT !.pc = "done", !.result = "ok"])
          /\ metrics' = [metrics EXCEPT !.totalRestores = @ + 1,
                                        !.successfulRestores = @ + 1]
     ELSE /\ RestoreThrow(r, loc, "Failed to start VM")
          /\ UNCHANGED vm
  /\ UNCHANGED maintVars
  /\ UNCHANGED libVars
  /\ UNCHANGED <<impl, now, disk, config, backups, storage, savedMeta, bk, corruptions>>

\* ---------------------------------------------- lib service: createBackup
NewLibBackup(c, v, o) ==
  [id |-> c, vmName |-> v, type |-> o.type, status |-> "in_progress", createdAt |-> now,
   size |-> 0, location |-> FALSE, compression |-> o.compression,
   encryption |-> o.encryption, retentionDays |-> o.retentionDays, progress |-> 0,
   vmWasRunning |-> FALSE, error |-> "none"]

LibCreateBackup(c, v, o) ==
  /\ impl = "lib"
  /\ bk[c].pc = "idle"
  /\ bk' = [bk EXCEPT ![c] = [@ EXCEPT !.pc = "getVmInfo", !.vmName = v, !.opts = o]]
  /\ UNCHANGED <<impl, now, vm, disk, scratch, rs>>
  /\ UNCHANGED maintVars
  /\ UNCHANGED chunkedVars
  /\ UNCHANGED libVars

\* createBackup from the return of getVmInfo to its own return, with the part
\* of performBackup that runs before its first await
LibGetVmInfo(c, ok) ==
  /\ impl = "lib"
  /\ bk[c].pc = "getVmInfo"
  /\ LET b == bk[c]
         busy == \E a \in DOMAIN activeBackups :
                    /\ activeBackups[a].vmName = b.vmName
                    /\ activeBackups[a].status = "in_progress"
     IN IF ~ok \/ VmMissing(b.vmName)
        THEN /\ bk' = [bk EXCEPT ![c] = [b EXCEPT !.pc = "rejected", !.result = "error",
                                                  !.error = "VM not found"]]
             /\ UNCHANGED activeBackups
        ELSE IF busy
        THEN /\ bk' = [bk EXCEPT ![c] = [b EXCEPT !.pc = "rejected", !.result = "error",
                                                  !.error = "Backup already in progress"]]
             /\ UNCHANGED activeBackups
        ELSE /\ activeBackups' = MapSet(activeBackups, c, NewLibBackup(c, b.vmName, b.opts))
             /\ bk' = [bk EXCEPT ![c] = [b EXCEPT !.pc = "prepare", !.result = "started"]]
  /\ UNCHANGED <<impl, now, vm, disk, scratch, rs, backupHistory, libFiles>>
  /\ UNCHANGED maintVars
  /\ UNCHANGED chunkedVars

\* fs.rename(backup.tempDir, failed/<id>) and fs.rm(backup.tempDir)
RemoveDir(files, dir) == [p \in {q \in DOMAIN files : q[1] # dir} |-> files[p]]

\* failBackup, called when the promise of performBackup rejects
LibFailBackup(c, b, err) ==
  /\ IF c \in DOMAIN activeBackups
     THEN /\ backupHistory' = Append(backupHistory,
                                [activeBackups[c] EXCEPT !.status = "failed", !.error = err])
          /\ activeBackups' = MapDel(activeBackups, c)
          /\ scratch' = RemoveDir(scratch, BackupDir(c))
     ELSE UNCHANGED <<backupHistory, activeBackups, scratch>>
  /\ bk' = [bk EXCEPT ![c] = [b EXCEPT !.pc = "failed", !.error = err, !.archive = << >>,
                                       !.failing = "none"]]

\* an exception inside the try ... finally of performBackup
LibInnerThrow(c, b, err) ==
  IF b.vmStopped
  THEN /\ bk' = [bk EXCEPT ![c] = [b EXCEPT !.pc = "restartVm", !.failing = err]]
       /\ UNCHANGED <<backupHistory, activeBackups, scratch>>
  ELSE LibFailBackup(c, b, err)

\* prepareBackup
LibPrepare(c, ok) ==
  /\ impl = "lib"
  /\ bk[c].pc = "prepare"
  /\ IF ok
     THEN /\ activeBackups' = [activeBackups EXCEPT ![c].progress = 10]
          /\ bk' = [bk EXCEPT ![c].pc = "vmStatus"]
          /\ UNCHANGED <<backupHistory, scratch>>
     ELSE LibFailBackup(c, bk[c], "mkdir failed")
  /\ UNCHANGED <<impl, now, vm, disk, rs, libFiles>>
  /\ UNCHANGED maintVars
  /\ UNCHANGED chunkedVars

\* prepareVmForBackup: getVmStatus, which is null when limactl fails
LibVmStatus(c, ok) ==
  /\ impl = "lib"
  /\ bk[c].pc = "vmStatus"
  /\ IF ok /\ vm[bk[c].vmName] = "Running"
     THEN /\ bk' = [bk EXCEPT ![c].pc = "stopVm"]
          /\ UNCHANGED activeBackups
     ELSE /\ bk' = [bk EXCEPT ![c].pc = "create"]
          /\ activeBackups' = [activeBackups EXCEPT ![c].progress = 20]
  /\ UNCHANGED <<impl, now, vm, disk, scratch, rs, backupHistory, libFiles>>
  /\ UNCHANGED maintVars
  /\ UNCHANGED chunkedVars

\* prepareVmForBackup: limactl stop
LibStopVm(c, ok) ==
  /\ impl = "lib"
  /\ bk[c].pc = "stopVm"
  /\ IF ok
     THEN /\ vm' = [vm EXCEPT ![bk[c].vmName] = "Stopped"]
          /\ activeBackups' = [activeBackups EXCEPT ![c].vmWasRunning = TRUE,
                                                    ![c].progress = 20]
          /\ bk' = [bk EXCEPT ![c].pc = "create", ![c].vmStopped = TRUE,
                              ![c].stopped = TRUE]
          /\ UNCHANGED <<backupHistory, scratch>>
     ELSE /\ LibFailBackup(c, bk[c], "Command failed")
          /\ UNCHANGED vm
  /\ UNCHANGED <<impl, now, disk, rs, libFiles>>
  /\ UNCHANGED maintVars
  /\ UNCHANGED chunkedVars

Tar(s) == <<TarMagic>> \o s

\* the position after a step of the try block: the next await
LibAfter(step, rec) ==
  IF step = "create" /\ rec.compression THEN "compress"
  ELSE IF step \in {"create", "compress"} /\ rec.encryption THEN "encrypt"
  ELSE "finalize"

\* the progress that is visible at that await
LibProgressAt(pos) ==
  IF pos = "compress" THEN 80 ELSE IF pos = "encrypt" THEN 90 ELSE 95

\* the switch on backup.type and createFullBackup
LibCreateArchive(c, ok) ==
  /\ impl = "lib"
  /\ bk[c].pc = "create"
  /\ LET b == bk[c]
         rec == activeBackups[c]
         archive == Tar(disk[b.vmName])
         next == LibAfter("create", rec)
     IN IF ok /\ rec.type \in {"full", "incremental", "differential"}
              /\ vm[b.vmName] # "Absent"
        THEN /\ scratch' = MapSet(scratch, <<BackupDir(c), <<"archive">> >>, now)
             /\ activeBackups' = [activeBackups EXCEPT ![c].size = Len(archive),
                                                       ![c].progress = LibProgressAt(next)]
             /\ bk' = [bk EXCEPT ![c] = [b EXCEPT !.archive = archive, !.pc = next]]
             /\ UNCHANGED backupHistory
        ELSE LibInnerThrow(c, b, "create failed")
  /\ UNCHANGED <<impl, now, vm, disk, rs, libFiles>>
  /\ UNCHANGED maintVars
  /\ UNCHANGED chunkedVars

\* compressBackup
LibCompress(c, ok) ==
  /\ impl = "lib"
  /\ bk[c].pc = "compress"
  /\ LET b == bk[c]
         rec == activeBackups[c]
         archive == Compress(b.archive, "gzip")
         next == LibAfter("compress", rec)
     IN IF ok
        THEN /\ activeBackups' = [activeBackups EXCEPT ![c].size = Len(archive),
                                                       ![c].progress = LibProgressAt(next)]
             /\ bk' = [bk EXCEPT ![c] = [b EXCEPT !.archive = archive, !.pc = next]]
             /\ UNCHANGED <<backupHistory, scratch>>
        ELSE LibInnerThrow(c, b, "compress failed")
  /\ UNCHANGED <<impl, now, vm, disk, rs, libFiles>>
  /\ UNCHANGED maintVars
  /\ UNCHANGED chunkedVars

\* encryptBackup
LibEncrypt(c, ok, iv) ==
  /\ impl = "lib"
  /\ bk[c].pc = "encrypt"
  /\ LET b == bk[c] IN
     IF ok
     THEN /\ activeBackups' = [activeBackups EXCEPT ![c].progress = 95]
          /\ bk' = [bk EXCEPT ![c] = [b EXCEPT !.archive = Encrypt(b.archive, iv),
                                               !.pc = "finalize"]]
          /\ UNCHANGED <<backupHistory, scratch>>
     ELSE LibInnerThrow(c, b, "encrypt failed")
  /\ UNCHANGED <<impl, now, vm, disk, rs, libFiles>>
  /\ UNCHANGED maintVars
  /\ UNCHANGED chunkedVars

\* new Date(createdAt) < cutoffDate, the cutoff being retentionDays before now
BeforeCutoff(createdAt, retentionDays) ==
  LET age == now - createdAt IN
  \/ age \div DayMs > retentionDays
  \/ age \div DayMs = retentionDays /\ age % DayMs > 0

\* the filter of cleanupOldBackups
LibOldBackups(hist, vmName, retentionDays) ==
  {hist[i].id : i \in {j \in 1..Len(hist) :
      /\ hist[j].vmName = vmName
      /\ hist[j].status = "completed"
      /\ BeforeCutoff(hist[j].createdAt, retentionDays)}}

\* performBackup after its finally block: the move to backupHistory and the
\* call of cleanupOldBackups up to its first await
LibMoveToHistory(c, b, rec) ==
  LET hist == Append(backupHistory, rec) IN
  /\ activeBackups' = MapDel(activeBackups, c)
  /\ backupHistory' = hist
  /\ bk' = [bk EXCEPT ![c] = [b EXCEPT !.pc = "cleanup", !.archive = << >>,
                                       !.old = LibOldBackups(hist, rec.vmName,
                                                             rec.retentionDays)]]

\* finalizeBackup, and the end of the try block
LibFinalize(c, ok) ==
  /\ impl = "lib"
  /\ bk[c].pc = "finalize"
  /\ LET b == bk[c]
         rec == [activeBackups[c] EXCEPT !.location = TRUE, !.progress = 100,
                                         !.status = "completed"]
     IN IF ok
        THEN /\ libFiles' = MapSet(libFiles, c, b.archive)
             /\ scratch' = RemoveDir(scratch, BackupDir(c))
             /\ IF b.vmStopped
                THEN /\ activeBackups' = [activeBackups EXCEPT ![c] = rec]
                     /\ bk' = [bk EXCEPT ![c] = [b EXCEPT !.pc = "restartVm",
                                                          !.archive = << >>]]
                     /\ UNCHANGED backupHistory
                ELSE LibMoveToHistory(c, b, rec)
        ELSE /\ LibInnerThrow(c, b, "finalize failed")
             /\ UNCHANGED libFiles
  /\ UNCHANGED <<impl, now, vm, disk, rs>>
  /\ UNCHANGED maintVars
  /\ UNCHANGED chunkedVars

\* the finally block of performBackup: restoreVmAfterBackup, whose errors are
\* logged and not thrown; then the move to history or the rethrow
LibRestartVm(c, ok) ==
  /\ impl = "lib"
  /\ bk[c].pc = "restartVm"
  /\ LET b == [bk[c] EXCEPT !.startAttempted = activeBackups[c].vmWasRunning] IN
     /\ vm' = IF ok /\ activeBackups[c].vmWasRunning
              THEN [vm EXCEPT ![b.vmName] = "Running"] ELSE vm
     /\ IF b.failing # "none"
        THEN LibFailBackup(c, b, b.failing)
        ELSE /\ LibMoveToHistory(c, b, activeBackups[c])
             /\ UNCHANGED scratch
  /\ UNCHANGED <<impl, now, disk, rs, libFiles>>
  /\ UNCHANGED maintVars
  /\ UNCHANGED chunkedVars

\* the loop of cleanupOldBackups: fs.unlink(backup.location) of each old backup
LibCleanupOldBackups(c) ==
  /\ impl = "lib"
  /\ bk[c].pc = "cleanup"
  /\ libFiles' = [k \in (DOMAIN libFiles) \ bk[c].old |-> libFiles[k]]
  /\ bk' = [bk EXCEPT ![c].pc = "done", ![c].old = {}]
  /\ UNCHANGED <<impl, now, vm, disk, scratch, rs, activeBackups, backupHistory>>
  /\ UNCHANGED maintVars
  /\ UNCHANGED chunkedVars

\* ---------------------------------------------- lib service: restoreBackup
\* restoreBackup without its check of backup.status
LibRestorableAny(backup) == TRUE

\* the check of backup.status in restoreBackup
LibRestorable(backup) == backup.status = "completed"

LibFind(hist, id) == {i \in 1..Len(hist) : hist[i].id = id}

LibRestoreFail(r, loc, err) ==
  rs' = [rs EXCEPT ![r] = [loc EXCEPT !.pc = "failed", !.result = "error", !.error = err]]

\* restoreBackup up to the await of fs.access
LibRestoreBackup(r, id, tgt, ow) ==
  /\ impl = "lib"
  /\ rs[r].pc = "idle"
  /\ LET found == LibFind(backupHistory, id)
         loc == [rs[r] EXCEPT !.backupId = id, !.overwrite = ow]
     IN IF found = {}
        THEN LibRestoreFail(r, loc, "Backup not found")
        ELSE LET backup == backupHistory[CHOOSE i \in found : \A j \in found : i <= j] IN
             IF ~LibRestorable(backup)
             THEN LibRestoreFail(r, loc, "Backup is not completed")
             ELSE rs' = [rs EXCEPT ![r] = [loc EXCEPT !.pc = "access",
                                           !.target = IF tgt = "none" THEN backup.vmName
                                                      ELSE tgt]]
  /\ UNCHANGED <<impl, now, vm, disk, scratch, bk>>
  /\ UNCHANGED maintVars
  /\ UNCHANGED chunkedVars
  /\ UNCHANGED libVars

\* fs.access(backup.location)
LibRestoreAccess(r, ok) ==
  /\ impl = "lib"
  /\ rs[r].pc = "access"
  /\ IF ok /\ rs[r].backupId \in DOMAIN libFiles
     THEN rs' = [rs EXCEPT ![r].pc = "vmExists"]
     ELSE LibRestoreFail(r, rs[r], "Backup file not found")
  /\ UNCHANGED <<impl, now, vm, disk, scratch, bk>>
  /\ UNCHANGED maintVars
  /\ UNCHANGED chunkedVars
  /\ UNCHANGED libVars

\* vmExists, false when limactl fails, and the overwrite check
LibRestoreVmExists(r, ok) ==
  /\ impl = "lib"
  /\ rs[r].pc = "vmExists"
  /\ LET vmExists == ok /\ vm[rs[r].target] # "Absent" IN
     IF vmExists /\ ~rs[r].overwrite
     THEN LibRestoreFail(r, rs[r], "Target VM already exists and overwrite is false")
     ELSE rs' = [rs EXCEPT ![r].pc = IF vmExists THEN "vmStatus" ELSE "body"]
  /\ UNCHANGED <<impl, now, vm, disk, scratch, bk>>
  /\ UNCHANGED maintVars
  /\ UNCHANGED chunkedVars
  /\ UNCHANGED libVars

LibRestoreVmStatus(r, ok) ==
  /\ impl = "lib"
  /\ rs[r].pc = "vmStatus"
  /\ rs' = [rs EXCEPT ![r].pc = IF ok /\ vm[rs[r].target] = "Running" THEN "stopVm"
                                 ELSE "body"]
  /\ UNCHANGED <<impl, now, vm, disk, scratch, bk>>
  /\ UNCHANGED maintVars
  /\ UNCHANGED chunkedVars
  /\ UNCHANGED libVars

LibRestoreStopVm(r, ok) ==
  /\ impl = "lib"
  /\ rs[r].pc = "stopVm"
  /\ LET loc == [rs[r] EXCEPT !.vmOps = @ + 1] IN
     IF ok
     THEN /\ vm' = [vm EXCEPT ![loc.target] = "Stopped"]
          /\ rs' = [rs EXCEPT ![r] = [loc EXCEPT !.stopped = TRUE, !.pc = "body"]]
     ELSE /\ LibRestoreFail(r, loc, "Command failed")
          /\ UNCHANGED vm
  /\ UNCHANGED <<impl, now, disk, scratch, bk>>
  /\ UNCHANGED maintVars
  /\ UNCHANGED chunkedVars
  /\ UNCHANGED libVars

\* the try ... finally of restoreBackup.  decryptBackup, decompressBackup and
\* extractBackup are methods the class does not define: the first of them that
\* is called throws a TypeError, so the start of the VM is never reached.  The
\* finally block removes the restore directory.
LibRestoreBody(r, ok) ==
  /\ impl = "lib"
  /\ rs[r].pc = "body"
  /\ LibRestoreFail(r, rs[r], IF ok THEN "is not a function" ELSE "mkdir failed")
  /\ UNCHANGED <<impl, now, vm, disk, scratch, bk>>
  /\ UNCHANGED maintVars
  /\ UNCHANGED chunkedVars
  /\ UNCHANGED libVars

\* ------------------------------------------ chunked service: deleteBackup
\* a deleteBackup of an id that is not in the store returns quietly
DeleteMissingQuiet(d, id) ==
  del' = [del EXCEPT ![d] = [IdleDelete EXCEPT !.pc = "done", !.backupId = id]]

\* deleteBackup when this.backups.get(backupId) is undefined: the throw
DeleteMissing(d, id) ==
  del' = [del EXCEPT ![d] = [IdleDelete EXCEPT !.pc = "failed", !.backupId = id,
                                               !.error = "Backup not found"]]

\* deleteBackup up to its first await: the one of the first deleteChunk, or
\* the one of fs.unlink when the backup has no chunk
DeleteStart(d, id) ==
  IF id \notin DOMAIN backups
  THEN DeleteMissing(d, id)
  ELSE del' = [del EXCEPT ![d] =
                 [IdleDelete EXCEPT !.backupId = id, !.meta = backups[id],
                                    !.pc = IF Len(backups[id].chunks) = 0 THEN "unlink"
                                           ELSE "chunks"]]

DeleteBackup(d, id) ==
  /\ impl = "chunked"
  /\ del[d].pc = "idle"
  /\ DeleteStart(d, id)
  /\ UNCHANGED <<impl, now, vm, disk, scratch, bk, rs, sched>>
  /\ UNCHANGED chunkedVars
  /\ UNCHANGED libVars

\* a failed deleteChunk ends the deleteBackup
DeleteAfterChunkAbort(ok, last) ==
  IF ~ok THEN "failed" ELSE IF last THEN "unlink" ELSE "chunks"

\* the position after one deleteChunk: its failure is logged by the catch of
\* the loop
DeleteAfterChunk(ok, last) == IF last THEN "unlink" ELSE "chunks"

\* fs.unlink(path): it rejects when there is no such file
Unlink(files, key) ==
  IF key \in DOMAIN files THEN [error |-> "none", files |-> MapDel(files, key)]
  ELSE [error |-> "ENOENT", files |-> files]

\* deleteObject of the LocalStorage class
LocalDeleteObject(files, key) == Unlink(files, key)

\* deleteChunk with the local backend: fs.unlink(chunkPath).catch(() => {})
DeleteChunkLocal(files, key) == [Unlink(files, key) EXCEPT !.error = "none"]

\* one iteration of the loop over metadata.chunks: deleteChunk, which removes
\* the object if it is there
DeleteChunk(d, ok) ==
  /\ impl = "chunked"
  /\ del[d].pc = "chunks"
  /\ LET l == del[d]
         chunk == l.meta.chunks[l.idx + 1]
         key == Key(l.backupId, chunk.id)
         last == l.idx + 1 = Len(l.meta.chunks)
     IN /\ storage' = IF ok THEN DeleteChunkLocal(storage, key).files ELSE storage
        /\ del' = [del EXCEPT ![d] = [l EXCEPT !.idx = @ + 1,
                                               !.attempted = @ \cup {chunk.id},
                                               !.pc = DeleteAfterChunk(ok, last)]]
  /\ UNCHANGED <<impl, now, vm, disk, scratch, bk, rs, sched, config, backups,
                 operations, metrics, savedMeta, corruptions>>
  /\ UNCHANGED libVars

\* deleteBackup from the unlink of the metadata file, whose failure is
\* ignored, to its return
DeleteFinish(d, ok) ==
  /\ impl = "chunked"
  /\ del[d].pc = "unlink"
  /\ savedMeta' = IF ok THEN savedMeta \ {del[d].backupId} ELSE savedMeta
  /\ backups' = MapDel(backups, del[d].backupId)
  /\ metrics' = [metrics EXCEPT !.storageUsed = @ - del[d].meta.size]
  /\ del' = [del EXCEPT ![d].pc = "done"]
  /\ UNCHANGED <<impl, now, vm, disk, scratch, bk, rs, sched, config, operations,
                 storage, corruptions>>
  /\ UNCHANGED libVars

\* ------------------------------------- chunked service: scheduled backups
\* this.config.retention[backupType]
Retention(backupType) ==
  IF backupType = "daily" THEN retentionDaily
  ELSE IF backupType = "weekly" THEN retentionWeekly
  ELSE Undefined

\* the filter of applyRetentionPolicy without its comparison of the type
RetentionMatchesAnyType(metadata, backupType) ==
  BeforeCutoff(metadata.createdAt, Retention(backupType))

\* the filter of applyRetentionPolicy
RetentionMatches(metadata, backupType) ==
  /\ metadata.type = backupType
  /\ BeforeCutoff(metadata.createdAt, Retention(backupType))

RECURSIVE SortedSeq(_)
SortedSeq(ids) ==
  IF ids = {} THEN << >>
  ELSE LET m == CHOOSE x \in ids : \A y \in ids : x <= y
       IN <<m>> \o SortedSeq(ids \ {m})

\* backupsToDelete of applyRetentionPolicy
BackupsToDelete(backupType) ==
  IF Retention(backupType) = Undefined THEN << >>
  ELSE SortedSeq({id \in DOMAIN backups : RetentionMatches(backups[id], backupType)})

\* getVmList: the VMs limactl lists as Running
RunningVms == SelectSeq(VmOrder, LAMBDA v : vm[v] = "Running")

FreeSlots == {c \in BackupIds : bk[c].pc = "idle"}

\* the end of performScheduledBackup; the job waits for its next fire
SchedEnd(l) == IdleSched

\* applyRetentionPolicy up to the first await of its first deleteBackup, or to
\* its return when there is nothing to delete
SchedApplyRetention(l) ==
  LET ids == BackupsToDelete(l.type) IN
  IF Len(ids) = 0
  THEN /\ sched' = SchedEnd(l)
       /\ UNCHANGED del
  ELSE /\ sched' = [l EXCEPT !.pc = "retention", !.toDelete = ids, !.idx = 1,
                             !.cutoffAt = now]
       /\ DeleteStart(RetentionCall, ids[1])

\* one iteration of the loop over the VMs: createBackup up to its first await
SchedCreateBackup(l, i) ==
  /\ FreeSlots # {}
  /\ LET c == CHOOSE x \in FreeSlots : \A y \in FreeSlots : x <= y IN
     /\ sched' = [l EXCEPT !.pc = "backup", !.idx = i, !.cur = c,
                           !.attempted = Append(@, l.vms[i]), !.slots = Append(@, c)]
     /\ bk' = [bk EXCEPT ![c] = StartBackup(@, l.vms[i], FALSE, l.type,
                                            {<<"scheduled", l.type>>, <<"auto", l.type>>})]
  /\ UNCHANGED del

\* a createBackup that throws ends the loop over the VMs
SchedLoopDoneOnFailure(l, failed) == failed \/ l.idx = Len(l.vms)

\* the loop over the VMs is over when the last VM was attempted: the catch
\* inside the loop logs the error of a createBackup that throws
SchedLoopDone(l, failed) == l.idx = Len(l.vms)

\* the scheduled job fires: performScheduledBackup up to the await of getVmList
ScheduledFire(type) ==
  /\ impl = "chunked"
  /\ sched.pc = "idle"
  /\ Cardinality(FreeSlots) >= Len(RunningVms)
  /\ sched' = [IdleSched EXCEPT !.pc = "getVmList", !.type = type]
  /\ UNCHANGED <<impl, now, vm, disk, scratch, bk, rs, del>>
  /\ UNCHANGED chunkedVars
  /\ UNCHANGED libVars

\* getVmList returns, or rejects, which the outer catch logs
SchedGetVmList(ok) ==
  /\ impl = "chunked"
  /\ sched.pc = "getVmList"
  /\ Cardinality(FreeSlots) >= Len(RunningVms)
  /\ LET l == [sched EXCEPT !.vms = RunningVms] IN
     IF ~ok
     THEN /\ sched' = SchedEnd(sched)
          /\ UNCHANGED <<bk, del>>
     ELSE IF Len(l.vms) > 0
     THEN SchedCreateBackup(l, 1)
     ELSE /\ SchedApplyRetention(l)
          /\ UNCHANGED bk
  /\ UNCHANGED <<impl, now, vm, disk, scratch, rs>>
  /\ UNCHANGED chunkedVars
  /\ UNCHANGED libVars

\* the createBackup the loop awaits has returned or thrown
SchedBackupReturned ==
  /\ impl = "chunked"
  /\ sched.pc = "backup"
  /\ bk[sched.cur].pc \in {"done", "failed"}
  /\ IF SchedLoopDone(sched, bk[sched.cur].pc = "failed")
     THEN /\ SchedApplyRetention(sched)
          /\ UNCHANGED bk
     ELSE SchedCreateBackup(sched, sched.idx + 1)
  /\ UNCHANGED <<impl, now, vm, disk, scratch, rs>>
  /\ UNCHANGED chunkedVars
  /\ UNCHANGED libVars

\* the deleteBackup the loop of applyRetentionPolicy awaits has returned or
\* thrown
SchedDeleteReturned ==
  /\ impl = "chunked"
  /\ sched.pc = "retention"
  /\ del[RetentionCall].pc \in {"done", "failed"}
  /\ IF sched.idx = Len(sched.toDelete)
     THEN /\ sched' = SchedEnd(sched)
          /\ del' = [del EXCEPT ![RetentionCall] = IdleDelete]
     ELSE /\ sched' = [sched EXCEPT !.idx = @ + 1]
          /\ DeleteStart(RetentionCall, sched.toDelete[sched.idx + 1])
  /\ UNCHANGED <<impl, now, vm, disk, scratch, bk, rs>>
  /\ UNCHANGED chunkedVars
  /\ UNCHANGED libVars

\* ------------------------------------------------ chunked service: sweep
\* the sweep with >= in place of >
StuckInclusive(operation) ==
  operation.status = "running" /\ now - operation.startTime >= timeout

\* the condition of the loop of checkStuckOperations
Stuck(operation) ==
  operation.status = "running" /\ now - operation.startTime > timeout

\* a sweep that also ends the pipeline of each createBackup it times out
CheckStuckOperationsAbort ==
  /\ impl = "chunked"
  /\ \E id \in DOMAIN operations : Stuck(operations[id])
  /\ operations' = [id \in DOMAIN operations |->
                      IF Stuck(operations[id])
                      THEN [operations[id] EXCEPT !.status = "timeout", !.endTime = now,
                                                  !.error = "Operation timed out"]
                      ELSE operations[id]]
  /\ bk' = [c \in BackupIds |->
              IF OpId(c) \in DOMAIN operations /\ Stuck(operations[OpId(c)])
              THEN [Retire(bk[c]) EXCEPT !.pc = "failed", !.error = "Operation timed out"]
              ELSE bk[c]]
  /\ UNCHANGED maintVars
  /\ UNCHANGED libVars
  /\ UNCHANGED <<impl, now, vm, disk, config, backups, metrics, storage, scratch,
                 savedMeta, rs, corruptions>>

CheckStuckOperations ==
  /\ impl = "chunked"
  /\ \E id \in DOMAIN operations : Stuck(operations[id])
  /\ operations' = [id \in DOMAIN operations |->
                      IF Stuck(operations[id])
                      THEN [operations[id] EXCEPT !.status = "timeout", !.endTime = now,
                                                  !.error = "Operation timed out"]
                      ELSE operations[id]]
  /\ UNCHANGED maintVars
  /\ UNCHANGED libVars
  /\ UNCHANGED <<impl, now, vm, disk, config, backups, metrics, storage, scratch,
                 savedMeta, bk, rs, corruptions>>

\* ------------------------------------------------------------ environment
Tick ==
  /\ now % DayMs < MaxTime
  /\ now' = now + 1
  /\ UNCHANGED maintVars
  /\ UNCHANGED libVars
  /\ UNCHANGED <<impl, vm, disk, config, backups, operations, metrics, storage,
                 scratch, savedMeta, bk, rs, corruptions>>

\* a millisecond or a day passes between two calls: the calls themselves are
\* short on this clock
Elapse(dt) ==
  /\ dt = 1 => now % DayMs < MaxTime
  /\ dt = DayMs => now \div DayMs < MaxDays
  /\ \A c \in BackupIds : bk[c].pc \in {"idle", "done", "failed"}
  /\ sched.pc = "idle"
  /\ now' = now + dt
  /\ UNCHANGED maintVars
  /\ UNCHANGED libVars
  /\ UNCHANGED <<impl, vm, disk, config, backups, operations, metrics, storage,
                 scratch, savedMeta, bk, rs, corruptions>>

\* limactl start, by an operator: the VM is created if it does not exist
LimaStart(v) ==
  /\ vm[v] # "Running"
  /\ vm' = [vm EXCEPT ![v] = "Running"]
  /\ UNCHANGED maintVars
  /\ UNCHANGED libVars
  /\ UNCHANGED <<impl, now, disk, config, backups, operations, metrics, storage,
                 scratch, savedMeta, bk, rs, corruptions>>

\* limactl stop, by an operator
LimaStop(v) ==
  /\ vm[v] = "Running"
  /\ vm' = [vm EXCEPT ![v] = "Stopped"]
  /\ UNCHANGED maintVars
  /\ UNCHANGED libVars
  /\ UNCHANGED <<impl, now, disk, config, backups, operations, metrics, storage,
                 scratch, savedMeta, bk, rs, corruptions>>

\* the keys uploadChunk can write
StorageKeys == {Key(b, ChunkId(b, i)) : b \in BackupIds, i \in 0..3}

\* a stored chunk is damaged (one byte changed) or lost
CorruptChunk(key, lost) ==
  /\ impl = "chunked"
  /\ corruptions < MaxCorruptions
  /\ key \in DOMAIN storage
  /\ storage' = IF lost THEN MapDel(storage, key)
                ELSE [storage EXCEPT ![key] = [@ EXCEPT ![1] = (@ + 1) % ByteMod]]
  /\ corruptions' = corruptions + 1
  /\ UNCHANGED maintVars
  /\ UNCHANGED libVars
  /\ UNCHANGED <<impl, now, vm, disk, config, backups, operations, metrics,
                 scratch, savedMeta, bk, rs>>

\* ------------------------------------------------------------------ claims
Terminal == {"completed", "failed", "timeout"}

\* the backup records that have not finished: running Operations of type
\* backup, in_progress entries of activeBackups
RunningBackupOps ==
  {id \in DOMAIN operations :
     operations[id].type = "backup" /\ operations[id].status = "running"}

InProgressBackups ==
  {id \in DOMAIN activeBackups : activeBackups[id].status = "in_progress"}

\* C1: per-VM exclusivity.  No second backup record is created for a vmName
\* while an earlier backup of that vmName is still running / in_progress: at
\* most one unfinished backup record per VM, in every interleaving.
C1_PerVmExclusivity ==
  /\ \A a \in RunningBackupOps : \A b \in RunningBackupOps :
       a # b => operations[a].vmName # operations[b].vmName
  /\ \A a \in InProgressBackups : \A b \in InProgressBackups :
       a # b => activeBackups[a].vmName # activeBackups[b].vmName

\* a completed record of backup id is what restoreBackup looks up
CompletedBackup(id) ==
  \/ /\ impl = "chunked"
     /\ id \in DOMAIN backups
     /\ backups[id].status = "completed"
  \/ /\ impl = "lib"
     /\ \E i \in 1..Len(backupHistory) :
          backupHistory[i].id = id /\ backupHistory[i].status = "completed"

\* C2: restoreBackup of a backup whose status is not completed is rejected,
\* and from the call to the rejection no VM is stopped or started and no disk
\* is written.
C2_IncompleteRejected ==
  [][\A r \in RestoreCalls :
       (rs[r].pc = "idle" /\ rs'[r].pc # "idle" /\ ~CompletedBackup(rs'[r].backupId))
       => /\ rs'[r].pc = "failed"
          /\ rs'[r].result = "error"
          /\ rs'[r].vmOps = 0
          /\ rs'[r].diskWrites = 0
          /\ vm' = vm
          /\ disk' = disk]_vars

\* a restore of a backup that failed was called and rejected
C2_Witness ==
  \E r \in RestoreCalls :
    /\ rs[r].pc = "failed"
    /\ rs[r].error = "Backup is not completed"
    /\ \E i \in 1..Len(backupHistory) :
         backupHistory[i].id = rs[r].backupId /\ backupHistory[i].status = "failed"

\* C3: terminal states are absorbing.  Once the status of an Operation is
\* completed, failed or timeout, no step changes it.
C3_TerminalAbsorbing ==
  [][\A id \in DOMAIN operations :
       operations[id].status \in Terminal
       => /\ id \in DOMAIN operations'
          /\ operations'[id].status = operations[id].status]_vars

\* C4: round trip.  Every chunk key read during the restore of backup b is a
\* key under which the backup pipeline of b wrote a chunk.
C4_RestoreReadsWrittenKeys ==
  impl = "chunked" =>
    \A r \in RestoreCalls : \A k \in rs[r].keysRead :
      \E i \in 0..3 : k = Key(rs[r].backupId, ChunkId(rs[r].backupId, i))

BackupMidFlight(c) ==
  bk[c].pc \in {"stopVm", "prepare", "upload", "finish", "save", "restartAfterOk",
                "restartAfterFail", "vmStatus", "create", "compress", "encrypt",
                "finalize", "restartVm", "cleanup"}

RestoreMidFlight(r) ==
  rs[r].pc \in {"download", "decode", "getVmInfo", "stopVm", "copy", "startVm",
                "access", "vmExists", "vmStatus", "body"}

\* C5: bounded concurrency.  At every moment at most maxConcurrentBackups
\* backup pipelines and at most maxConcurrentRestores restore pipelines are
\* mid-flight.
C5_BoundedConcurrency ==
  /\ Cardinality({c \in BackupIds : BackupMidFlight(c)}) <= maxConcurrentBackups
  /\ Cardinality({r \in RestoreCalls : RestoreMidFlight(r)}) <= maxConcurrentRestores

BackupEnded(c) == bk[c].pc \in {"done", "failed", "cleanup"}

\* C6: no backup ends with the VM stopped by it and no start attempted, whether
\* the pipeline completed or a step of it failed.
C6_StartAttempted ==
  \A c \in BackupIds : (BackupEnded(c) /\ bk[c].stopped) => bk[c].startAttempted

\* a backup that stopped the VM failed at a later step, and the start was
\* attempted
C6_Witness ==
  \E c \in BackupIds :
    /\ bk[c].pc = "failed"
    /\ bk[c].error \in {"backup step failed", "upload failed", "create failed",
                        "compress failed", "finalize failed"}
    /\ bk[c].stopped
    /\ bk[c].startAttempted

\* every chunk is stored with the bytes that were hashed at upload
ChunksIntact(chunks) ==
  \A i \in 1..Len(chunks) :
    LET key == Key(chunks[i].backupId, chunks[i].id) IN
    /\ key \in DOMAIN storage
    /\ Hash(storage[key]) = chunks[i].checksum

\* C7: integrity detection.  The integrity step sets integrityVerified only
\* if every uploaded chunk is stored with the bytes hashed at upload: with a
\* chunk damaged or missing before the step, the backup is not completed as
\* verified.
C7_IntegrityDetection ==
  [][\A c \in BackupIds :
       (impl = "chunked" /\ bk[c].pc = "finish" /\ bk'[c].pc = "save"
        /\ bk'[c].meta.integrityVerified)
       => ChunksIntact(bk[c].chunks)]_vars

\* C8: with requireIntegrityCheck = false the integrityVerified of a
\* completed backup is left false.
C8_DisabledLeavesUnverified ==
  \A b \in DOMAIN backups :
    (~config.requireIntegrityCheck /\ backups[b].status = "completed")
    => ~backups[b].integrityVerified

\* C9: after a failed backup no chunk key of that backup id remains in
\* storage.
C9_FailedBackupLeavesNoChunk ==
  impl = "chunked" =>
    \A c \in BackupIds :
      bk[c].pc = "failed" => \A k \in DOMAIN storage : k[1] # c

\* C10: a pipeline that ended with a step error has moved its own Operation
\* (its backup record, in the lib service) from running to failed, with the
\* error set; none is left running.
C10_FailedPipelineMarksFailed ==
  /\ impl = "chunked" =>
       /\ \A c \in BackupIds :
            (bk[c].pc = "failed" /\ OpId(c) \in DOMAIN operations)
            => /\ operations[OpId(c)].status = "failed"
               /\ operations[OpId(c)].error # "none"
       /\ \A r \in RestoreCalls :
            (rs[r].pc = "failed" /\ rs[r].op.status # "none")
            => /\ OwnOp(r).status = "failed"
               /\ OwnOp(r).error # "none"
  /\ impl = "lib" =>
       \A c \in BackupIds :
         bk[c].pc = "failed"
         => /\ c \notin DOMAIN activeBackups
            /\ \E i \in 1..Len(backupHistory) :
                 /\ backupHistory[i].id = c
                 /\ backupHistory[i].status = "failed"
                 /\ backupHistory[i].error # "none"

\* C11: each run of checkStuckOperations marks every Operation that is
\* running and older than the timeout as timeout, with endTime and error set,
\* and leaves every other Operation unchanged.
C11_SweepMarksExactlyStuck ==
  [][(\E id \in DOMAIN operations :
        /\ operations[id].status = "running"
        /\ id \in DOMAIN operations'
        /\ operations'[id].status = "timeout")
     => /\ DOMAIN operations' = DOMAIN operations
        /\ \A id \in DOMAIN operations :
             IF operations[id].status = "running"
                /\ now - operations[id].startTime > timeout
             THEN operations'[id] = [operations[id] EXCEPT !.status = "timeout",
                                                          !.endTime = now,
                                                          !.error = "Operation timed out"]
             ELSE operations'[id] = operations[id]]_vars

\* a sweep has marked one Operation and left alone another one, which had
\* ended before
C11_Witness ==
  \E a \in DOMAIN operations : \E b \in DOMAIN operations :
    /\ operations[a].status = "timeout"
    /\ operations[a].error = "Operation timed out"
    /\ operations[a].endTime > operations[a].startTime
    /\ operations[b].status \in {"completed", "failed"}
    /\ operations[b].endTime <= operations[a].endTime

\* C12: the progress of an Operation (of a backup record, in the lib
\* service) is within 0..100 and no step decreases it.
C12_ProgressMonotone ==
  [][/\ \A id \in DOMAIN operations :
          /\ operations[id].progress \in 0..100
          /\ (id \in DOMAIN operations'
              /\ operations'[id].owner = operations[id].owner
              /\ operations'[id].type = operations[id].type)
             => operations'[id].progress >= operations[id].progress
     /\ \A id \in DOMAIN activeBackups :
          /\ activeBackups[id].progress \in 0..100
          /\ id \in DOMAIN activeBackups'
             => activeBackups'[id].progress >= activeBackups[id].progress]_vars

\* an Operation is seen half way: one chunk of two is uploaded
C12_Witness ==
  \E id \in DOMAIN operations :
    /\ operations[id].status = "running"
    /\ operations[id].progress = 50
    /\ operations[id].size = chunkSize

\* C13: createBackup returns to its caller while the record it created is
\* still running / in_progress: the return precedes the end of the pipeline.
C13_ReturnsWhileRunning ==
  [][\A c \in BackupIds :
       (bk[c].result = "none" /\ bk'[c].result \in {"ok", "started"})
       => \/ /\ impl = "chunked"
             /\ OpId(c) \in DOMAIN operations'
             /\ operations'[OpId(c)].status = "running"
          \/ /\ impl = "lib"
             /\ c \in DOMAIN activeBackups'
             /\ activeBackups'[c].status = "in_progress"]_vars

\* C14: createBackup for a vmName that does not exist is rejected at once and
\* creates no Operation, no BackupMetadata and no backup record, issues no VM
\* stop or start and writes nothing to storage.
C14_MissingVmRejected ==
  [][\A c \in BackupIds :
       (bk[c].pc = "getVmInfo" /\ vm[bk[c].vmName] = "Absent"
        /\ bk'[c].pc # "getVmInfo")
       => /\ bk'[c].pc \in {"failed", "rejected"}
          /\ bk'[c].result = "error"
          /\ bk'[c].error \in {"VM not found", "Failed to get VM info"}
          /\ OpId(c) \notin DOMAIN operations'
          /\ c \notin DOMAIN backups'
          /\ c \notin DOMAIN activeBackups'
          /\ backupHistory' = backupHistory
          /\ vm' = vm
          /\ storage' = storage
          /\ libFiles' = libFiles
          /\ savedMeta' = savedMeta]_vars

\* a createBackup of the VM that does not exist was rejected
C14_Witness ==
  \E c \in BackupIds :
    /\ bk[c].vmName = "ghost"
    /\ bk[c].result = "error"
    /\ bk[c].error = "VM not found"
    /\ ~bk[c].stopped

\* the ids of the chunks of a BackupMetadata
ChunkIdsOf(metadata) == {metadata.chunks[i].id : i \in 1..Len(metadata.chunks)}

\* C15: deleteBackup of a stored backup attempts the deletion of every chunk
\* and then removes the metadata; a chunk whose deletion fails does not abort
\* it.  The metadata is removed only after every chunk was attempted, the
\* call fails only when it found no metadata, and once it has returned the
\* backup is absent from the store.
C15_DeleteIsBestEffort ==
  \A d \in DOMAIN del :
    /\ del[d].pc \in {"unlink", "done"} => del[d].attempted = ChunkIdsOf(del[d].meta)
    /\ del[d].pc = "done" => del[d].backupId \notin DOMAIN backups
    /\ del[d].pc = "failed" => del[d].meta.status = "none"

\* a deleteBackup has returned although a chunk of the backup is still stored
C15_Witness ==
  \E d \in DeleteCalls :
    /\ del[d].pc = "done"
    /\ del[d].backupId \notin DOMAIN backups
    /\ \E id \in ChunkIdsOf(del[d].meta) : Key(del[d].backupId, id) \in DOMAIN storage

\* C16: deleteBackup on an id that is not in the store raises a not-found
\* error and leaves the store, the stored chunks and the metrics unchanged.
C16_DeleteMissingRaises ==
  [][\A d \in DOMAIN del :
       (del[d].pc = "idle" /\ del'[d].pc # "idle"
        /\ del'[d].backupId \notin DOMAIN backups)
       => /\ del'[d].pc = "failed"
          /\ del'[d].error = "Backup not found"
          /\ backups' = backups
          /\ storage' = storage
          /\ savedMeta' = savedMeta
          /\ metrics' = metrics]_vars

\* a deleteBackup of an id that an earlier deleteBackup removed was rejected
C16_Witness ==
  \E d, e \in DeleteCalls :
    /\ del[d].pc = "failed"
    /\ del[d].error = "Backup not found"
    /\ del[e].pc = "done"
    /\ del[e].backupId = del[d].backupId

\* C17: after any sequence of completed createBackup and deleteBackup calls,
\* storageUsed equals the sum of size over the backups in the store.
C17_StorageUsedIsSum ==
  (impl = "chunked"
   /\ \A c \in BackupIds : bk[c].pc \in {"idle", "done", "failed"}
   /\ \A d \in DOMAIN del : del[d].pc \in {"idle", "done", "failed"})
  => metrics.storageUsed = SumSizes(backups, DOMAIN backups)

\* createdAt is older than `days` days at the time `at`
Older(createdAt, at, days) ==
  LET age == at - createdAt IN
  \/ age \div DayMs > days
  \/ age \div DayMs = days /\ age % DayMs > 0

\* the step that ends a retention pass of the chunked service
PassEnds == sched.pc \in {"backup", "retention"} /\ sched'.pc = "idle"

\* after a pass for class P no backup of type P older than P's retention is
\* in the store
ChunkedPassDeletesOld ==
  PassEnds =>
    \A id \in DOMAIN backups' :
      backups'[id].type = sched.type /\ Retention(sched.type) # Undefined
      => ~Older(backups'[id].createdAt, now, Retention(sched.type))

\* a backup that leaves the store is of the class of the pass and older than
\* its retention
ChunkedPassRetainsYoung ==
  \A id \in (DOMAIN backups) \ (DOMAIN backups') :
    /\ sched.pc = "retention"
    /\ backups[id].type = sched.type
    /\ Older(backups[id].createdAt, sched.cutoffAt, Retention(sched.type))

\* after cleanupOldBackups of the lib service no backup it selected is listed
LibPassDeletesOld ==
  \A c \in BackupIds :
    (impl = "lib" /\ bk[c].pc = "cleanup" /\ bk'[c].pc = "done")
    => \A i \in 1..Len(backupHistory') : backupHistory'[i].id \notin bk[c].old

\* C18: retention boundary.  A retention pass for class P with retention N
\* days deletes every completed backup of type P whose createdAt is older
\* than now - N days, which is absent from the store after the pass, and
\* retains every backup of type P that is not older.
C18_RetentionBoundary ==
  [][ChunkedPassDeletesOld /\ ChunkedPassRetainsYoung /\ LibPassDeletesOld]_vars

\* C19: retention classes are independent.  While a pass for class P runs,
\* every stored backup of another type, manual ones included, stays in the
\* store with its metadata, its metadata file and its chunks unchanged; what
\* leaves the store is of type P and older than P's own retention.
C19_ClassesIndependent ==
  [][/\ sched.pc = "retention" =>
          \A id \in DOMAIN backups :
            backups[id].type # sched.type
            => /\ id \in DOMAIN backups'
               /\ backups'[id] = backups[id]
               /\ id \in savedMeta => id \in savedMeta'
               /\ \A k \in DOMAIN storage :
                    k[1] = id => k \in DOMAIN storage' /\ storage'[k] = storage[k]
     /\ \A id \in (DOMAIN backups) \ (DOMAIN backups') :
          /\ backups[id].type = sched.type
          /\ Older(backups[id].createdAt, sched.cutoffAt,
                   IF sched.type = "daily" THEN retentionDaily ELSE retentionWeekly)]_vars

\* a pass has deleted a backup of its class and the store holds a backup of
\* another type that is older than the retention of the class of the pass
C19_Witness ==
  /\ sched.pc = "retention"
  /\ del[RetentionCall].pc = "done"
  /\ \E id \in DOMAIN backups :
       /\ backups[id].type # sched.type
       /\ Older(backups[id].createdAt, now, Retention(sched.type))

\* C20: in a scheduled fire for class P, createBackup is attempted once for
\* every VM listed as Running, with type P and the tag scheduled:P; a
\* createBackup that fails does not prevent the attempts for the later VMs.
C20_EveryRunningVmAttempted ==
  [][/\ (sched.pc = "getVmList" /\ sched'.pc = "backup")
        => sched'.vms = SelectSeq(VmOrder, LAMBDA v : vm[v] = "Running")
     /\ sched'.pc = "backup"
        => /\ sched'.attempted = SubSeq(sched'.vms, 1, sched'.idx)
           /\ bk'[sched'.cur].vmName = sched'.vms[sched'.idx]
           /\ bk'[sched'.cur].type = sched'.type
           /\ <<"scheduled", sched'.type>> \in bk'[sched'.cur].tags
     /\ (sched.pc = "backup" /\ sched'.pc # "backup")
        => sched.attempted = sched.vms
     /\ \A id \in DOMAIN backups' : \A type \in ScheduleTypes :
          <<"scheduled", type>> \in backups'[id].tags => backups'[id].type = type]_vars

\* the createBackup for the first VM of a batch failed and the one for the
\* second VM was attempted
C20_Witness ==
  /\ sched.pc = "backup"
  /\ Len(sched.slots) = 2
  /\ sched.attempted = sched.vms
  /\ bk[sched.slots[1]].pc = "failed"

\* every chunk of a metadata is stored, undamaged, under the key uploadChunk
\* wrote it to
ChunksStored(metadata) ==
  \A i \in 1..Len(metadata.chunks) :
    LET key == Key(metadata.id, metadata.chunks[i].id) IN
    key \in DOMAIN storage /\ Hash(storage[key]) = metadata.chunks[i].checksum

\* the stored chunks of a metadata, concatenated in ascending index order
RECURSIVE InIndexOrder(_, _)
InIndexOrder(metadata, i) ==
  IF i >= Len(metadata.chunks) THEN << >>
  ELSE storage[Key(metadata.id, ChunkId(metadata.id, i))] \o InIndexOrder(metadata, i + 1)

\* C21: chunk reassembly is order independent.  Whatever the order of the
\* entries of metadata.chunks, a restore of a backup whose chunks are all
\* stored does not fail for a missing chunk, and what it has reassembled when
\* the download ends is the chunks concatenated in ascending index order.
C21_ReassemblyOrderIndependent ==
  \A r \in RestoreCalls :
    rs[r].backupId \in DOMAIN backups /\ ChunksStored(backups[rs[r].backupId])
    => /\ ~(rs[r].pc = "failed" /\ rs[r].error = "chunk not found")
       /\ rs[r].pc = "decode" => rs[r].data = InIndexOrder(backups[rs[r].backupId], 0)

\* the entries of a chunk list of backup id have the indexes 0..n-1 in
\* order, and each id is made of the backup id and the index
ChunkListWellFormed(id, chunks) ==
  \A i \in 1..Len(chunks) :
    /\ chunks[i].index = i - 1
    /\ chunks[i].id = <<id, i - 1>>
    /\ chunks[i].backupId = id

\* C22: the chunks splitAndUpload records for a backup have the indexes
\* 0..n-1 with no gap and no duplicate, each chunk id is made of the backup
\* id and the index, and the step that records a chunk has stored its bytes
\* under the key made of the backup id and the chunk id.
C22_ChunkIdentity ==
  [][impl = "chunked" =>
       /\ \A c \in BackupIds :
            /\ ChunkListWellFormed(c, bk'[c].chunks)
            /\ Len(bk'[c].chunks) = Len(bk[c].chunks) + 1
               => LET e == bk'[c].chunks[Len(bk'[c].chunks)]
                      key == <<c, e.id>>
                  IN /\ key \in DOMAIN storage'
                     /\ storage'[key] = Piece(bk[c].archive, chunkSize, e.index)
                     /\ Len(storage'[key]) = e.size
       /\ \A id \in DOMAIN backups' :
            /\ ChunkListWellFormed(id, backups'[id].chunks)
            /\ Len(backups'[id].chunks) = NumChunks([i \in 1..backups'[id].size |-> 0],
                                                    chunkSize)]_vars

\* a backup of two chunks is in the store and both chunks are stored
C22_Witness ==
  \E id \in DOMAIN backups :
    /\ Len(backups[id].chunks) = 2
    /\ \A i \in 1..2 : <<id, backups[id].chunks[i].id>> \in DOMAIN storage

\* a metadata as createBackup builds it
Unfilled(metadata) ==
  /\ metadata.chunks = << >>
  /\ metadata.checksum = "none"
  /\ ~metadata.integrityVerified

\* C23: a BackupMetadata whose status is not completed has an empty chunks
\* list and integrityVerified false; chunks, checksum and integrityVerified
\* are filled only in the step that sets the status to completed.
C23_FilledOnlyWhenCompleted ==
  [][impl = "chunked" =>
       /\ \A c \in BackupIds :
            /\ bk'[c].meta.status \notin {"none", "completed"} => Unfilled(bk'[c].meta)
            /\ (bk[c].meta.status # "none" /\ bk'[c].meta.status # "none"
                /\ ~Unfilled(bk'[c].meta) /\ Unfilled(bk[c].meta))
               => bk[c].meta.status = "creating" /\ bk'[c].meta.status = "completed"
       /\ \A id \in DOMAIN backups' : backups'[id].status = "completed"]_vars

\* chunks of a backup are uploaded and its metadata, still creating, lists none
C23_Witness ==
  \E c \in BackupIds :
    /\ impl = "chunked"
    /\ bk[c].meta.status = "creating"
    /\ Len(bk[c].chunks) > 0
    /\ Unfilled(bk[c].meta)

ScratchOf(dir) == {p \in DOMAIN scratch : p[1] = dir}

\* C24: scratch cleanup is unconditional.  When a backup pipeline or a
\* restore pipeline has ended, with success or with a failure, no file of
\* its scratch directory is left (for a restore: unless another restore of
\* the same backup is still using the directory).
C24_ScratchRemoved ==
  /\ \A c \in BackupIds :
       bk[c].pc \in {"done", "failed"} => ScratchOf(BackupDir(c)) = {}
  /\ \A r \in RestoreCalls :
       (/\ rs[r].pc \in {"done", "failed"}
        /\ \A q \in RestoreCalls : q # r /\ rs[q].backupId = rs[r].backupId
                                   => rs[q].pc \in {"idle", "done", "failed"})
       => ScratchOf(RestoreDir(rs[r].backupId)) = {}

\* the scratch directory and the scratch file a chunked pipeline is working
\* with
BackupTempDir(c) == BackupDir(bk[c].meta.id)

RestoreTempDir(r) == RestoreDir(rs[r].meta.id)

ChunkedBackupMidFlight(c) ==
  impl = "chunked" /\ bk[c].pc \in {"stopVm", "prepare", "upload", "finish"}

ChunkedRestoreMidFlight(r) ==
  impl = "chunked" /\ rs[r].pc \in {"download", "decode", "getVmInfo", "stopVm", "copy",
                                    "startVm"}

\* C25: scratch isolation.  No two pipelines that are mid-flight at the same
\* time work in the same scratch directory: two backups never do, two
\* restores never do, even when they restore the same backup.
C25_ScratchIsolated ==
  /\ \A c, d \in BackupIds :
       c # d /\ ChunkedBackupMidFlight(c) /\ ChunkedBackupMidFlight(d)
       => BackupTempDir(c) # BackupTempDir(d)
  /\ \A r, q \in RestoreCalls :
       r # q /\ ChunkedRestoreMidFlight(r) /\ ChunkedRestoreMidFlight(q)
       => RestoreTempDir(r) # RestoreTempDir(q)

\* the filter arguments of listBackups: `given` holds the fields that are
\* present
FilterFields == {"vmName", "type", "status", "tags"}

ListFilters ==
  {[given |-> g, vmName |-> v, type |-> t, status |-> st, tags |-> tg] :
     g \in SUBSET FilterFields, v \in VmNames, t \in {"manual", "full"},
     st \in {"completed", "failed"}, tg \in {{}, {<<"scheduled", "daily">>}}}

\* listBackups of the chunked service, as the set of the array it returns
ListBackups(filter) ==
  LET all == {backups[id] : id \in DOMAIN backups}
      byVm == IF "vmName" \in filter.given
              THEN {b \in all : b.vmName = filter.vmName} ELSE all
      byType == IF "type" \in filter.given
                THEN {b \in byVm : b.type = filter.type} ELSE byVm
      byStatus == IF "status" \in filter.given
                  THEN {b \in byType : b.status = filter.status} ELSE byType
  IN IF "tags" \in filter.given
     THEN {b \in byStatus : \A tag \in filter.tags : tag \in b.tags} ELSE byStatus

\* listBackups of the lib service, as the set of the array it returns
LibListBackups(filters) ==
  LET all == {backupHistory[i] : i \in 1..Len(backupHistory)}
      byVm == IF "vmName" \in filters.given
              THEN {b \in all : b.vmName = filters.vmName} ELSE all
      byStatus == IF "status" \in filters.given
                  THEN {b \in byVm : b.status = filters.status} ELSE byVm
  IN IF "type" \in filters.given
     THEN {b \in byStatus : b.type = filters.type} ELSE byStatus

\* the tags of a backup record; a record of the lib service carries none
TagsOf(b) == IF "tags" \in DOMAIN b THEN b.tags ELSE {}

Satisfies(b, filter) ==
  /\ "vmName" \in filter.given => b.vmName = filter.vmName
  /\ "type" \in filter.given => b.type = filter.type
  /\ "status" \in filter.given => b.status = filter.status
  /\ "tags" \in filter.given => filter.tags \subseteq TagsOf(b)

\* C26: listBackups(filter) returns exactly the stored backups that satisfy
\* every filter field that is given: vmName, type and status equal, every
\* tag of filter.tags among the backup's tags.
C26_ListBackupsFilters ==
  \A filter \in ListFilters :
    /\ impl = "chunked" =>
         ListBackups(filter) = {b \in {backups[id] : id \in DOMAIN backups} :
                                  Satisfies(b, filter)}
    /\ impl = "lib" =>
         LibListBackups(filter) =
           {b \in {backupHistory[i] : i \in 1..Len(backupHistory)} : Satisfies(b, filter)}

\* C27: deleting a key that is absent from the store is a no-op and raises
\* no error, both for deleteObject of the local backend and for deleteChunk.
C27_DeleteAbsentIsNoOp ==
  \A key \in StorageKeys \ DOMAIN storage :
    /\ LocalDeleteObject(storage, key) = [error |-> "none", files |-> storage]
    /\ DeleteChunkLocal(storage, key) = [error |-> "none", files |-> storage]

\* C28: a failure of the VM start in the cleanup path of createBackup is not
\* re-thrown.  Once the pipeline has completed and the metadata is saved, the
\* step that ends the call, whether its start succeeds or fails, leaves the
\* Operation completed, the result of the call successful and the count of
\* failed backups as it was.
C28_StartFailureNotRethrown ==
  [][\A c \in BackupIds :
       /\ (impl = "chunked" /\ bk[c].pc = "restartAfterOk" /\ bk'[c].pc # "restartAfterOk")
          => /\ bk'[c].pc = "done"
             /\ bk'[c].result = "ok"
             /\ operations'[OpId(c)].status = "completed"
             /\ metrics'.failedBackups = metrics.failedBackups
       /\ (impl = "lib" /\ bk[c].pc = "restartVm" /\ bk[c].failing = "none"
           /\ bk'[c].pc # "restartVm")
          => /\ bk'[c].pc \in {"cleanup", "done"}
             /\ \E i \in 1..Len(backupHistory') :
                  backupHistory'[i].id = c /\ backupHistory'[i].status = "completed"]_vars

\* C29: a restore overwrites the disk image of its target VM only while that
\* VM is not running, whatever the other operations on the VM do in between;
\* and it issues its start only after the overwrite.
C29_OverwriteOnlyWhileStopped ==
  [][\A r \in RestoreCalls :
       /\ rs'[r].diskWrites # rs[r].diskWrites
          => /\ vm[rs[r].target] # "Running"
             /\ ~rs[r].startAttempted
       /\ (~rs[r].startAttempted /\ rs'[r].startAttempted) => rs[r].diskWrites > 0]_vars

\* C30: a restore never stops a live VM and then fails leaving it stopped.
\* A restore that stopped its target VM ends either completed, with the VM
\* started by it, or failed after it attempted to start the VM.
C30_StoppedVmRestarted ==
  \A r \in RestoreCalls :
    (rs[r].stopped /\ rs[r].pc \in {"done", "failed"}) => rs[r].startAttempted

TimedOut(c) ==
  /\ impl = "chunked"
  /\ OpId(c) \in DOMAIN operations
  /\ operations[OpId(c)].status = "timeout"

\* C31: the timeout sweep is advisory.  The step that marks an Operation
\* timeout leaves the pipeline of its createBackup where it was, with its
\* chunks and the store untouched; and a pipeline whose Operation reads
\* timeout goes on as any other: its upload step stores the chunk, its save
\* step persists the metadata with status completed.
C31_SweepIsAdvisory ==
  [][\A c \in BackupIds :
       /\ (~TimedOut(c) /\ TimedOut(c)')
          => /\ bk'[c] = bk[c]
             /\ storage' = storage
             /\ backups' = backups
             /\ savedMeta' = savedMeta
       /\ (TimedOut(c) /\ bk[c].pc = "upload" /\ Len(bk'[c].chunks) > Len(bk[c].chunks))
          => \E k \in DOMAIN storage' : k[1] = c
       /\ (TimedOut(c) /\ bk[c].pc = "save" /\ c \in savedMeta' /\ c \notin savedMeta)
          => /\ c \in DOMAIN backups'
             /\ backups'[c].status = "completed"]_vars

\* the Operation of a createBackup reads timeout before the pipeline has
\* uploaded its first chunk, and the upload can go on
C31_Witness ==
  \E c \in BackupIds :
    /\ TimedOut(c)
    /\ bk[c].pc = "upload"
    /\ bk[c].chunks = << >>
    /\ ENABLED BackupUploadChunk(c, TRUE)

\* C32: once a BackupMetadata is completed its chunks list is immutable.  No
\* step changes the content or the order of the chunks of a completed record
\* of the store, the sort of restoreBackup included; the list goes away only
\* with the record.
C32_ChunksImmutable ==
  [][\A id \in DOMAIN backups :
       (backups[id].status = "completed" /\ id \in DOMAIN backups')
       => backups'[id].chunks = backups[id].chunks]_vars

\* a restore has sorted the chunks of a stored backup of two chunks or more
C32_Witness ==
  \E r \in RestoreCalls :
    /\ impl = "chunked"
    /\ rs[r].keysRead # {}
    /\ rs[r].backupId \in DOMAIN backups
    /\ backups[rs[r].backupId].status = "completed"
    /\ Len(backups[rs[r].backupId].chunks) >= 2

\* C33: on every scheduled fire for class P retention for P is applied, and
\* only after createBackup was attempted for every VM of the batch.  The
\* deletions of a retention pass start only when every VM of the batch was
\* attempted, and when the fire ends no backup of class P that is past the
\* retention of P is left in the store.
C33_RetentionOnEveryFire ==
  [][/\ (sched.pc # "retention" /\ sched'.pc = "retention")
        => /\ sched'.attempted = sched'.vms
           /\ \A i \in 1..Len(sched'.slots) : bk'[sched'.slots[i]].pc \in {"done", "failed"}
     /\ (sched.pc # "idle" /\ sched'.pc = "idle")
        => \A type \in ScheduleTypes :
             sched.type = type => BackupsToDelete(type)' = << >>]_vars

\* C34: the counters of the metrics are consistent in every state:
\* totalBackups = successfulBackups + failedBackups and
\* totalRestores = successfulRestores + failedRestores.
C34_MetricsConsistent ==
  /\ metrics.totalBackups = metrics.successfulBackups + metrics.failedBackups
  /\ metrics.totalRestores = metrics.successfulRestores + metrics.failedRestores

\* a createBackup succeeded, a restoreBackup failed and another succeeded
C34_Witness ==
  /\ metrics.successfulBackups > 0
  /\ metrics.failedRestores > 0
  /\ metrics.successfulRestores > 0

\* C35: in the chunked service every BackupMetadata of the store has status
\* completed, and the record of a createBackup is in the store only once its
\* pipeline has completed: a backup that is in flight or has failed is not
\* in the store.
C35_StoreHoldsCompleted ==
  impl = "chunked" =>
    \A id \in DOMAIN backups :
      /\ backups[id].status = "completed"
      /\ id \in savedMeta
      /\ id \in BackupIds =>
           /\ bk[id].pc \notin {"getVmInfo", "stopVm", "prepare", "upload", "finish", "save",
                                "restartAfterFail"}
           /\ bk[id].result = "ok" \/ bk[id].error = "Failed to start VM"

\* one backup is in the store while another is in flight and has uploaded a
\* chunk
C35_Witness ==
  \E c, d \in BackupIds :
    /\ impl = "chunked"
    /\ c \in DOMAIN backups
    /\ bk[d].pc = "upload"
    /\ bk[d].chunks # << >>
    /\ d \notin DOMAIN backups

HistoryEntries(id) == {i \in 1..Len(backupHistory) : backupHistory[i].id = id}

\* the records of the lib service are in exactly one of activeBackups and
\* backupHistory, once in the latter, with a final status there
LibRecordsPlaced ==
  /\ \A i \in 1..Len(backupHistory) : backupHistory[i].status \in {"completed", "failed"}
  /\ \A c \in BackupIds :
       /\ Cardinality(HistoryEntries(c)) <= 1
       /\ ~(c \in DOMAIN activeBackups /\ HistoryEntries(c) # {})
       /\ bk[c].result = "started" => (c \in DOMAIN activeBackups \/ HistoryEntries(c) # {})

\* C36: in the lib service every record of activeBackups has status
\* in_progress, every record of backupHistory has status completed or failed,
\* and every accepted backup id is in exactly one of the two, and in
\* backupHistory at most once.
C36_ActiveAndHistory ==
  impl = "lib" =>
    /\ \A id \in DOMAIN activeBackups : activeBackups[id].status = "in_progress"
    /\ LibRecordsPlaced

\* C37: in the lib service every record of backupHistory with status
\* completed has its archive file at backup.location, also after
\* cleanupOldBackups has run.
C37_CompletedHasArchive ==
  impl = "lib" =>
    \A i \in 1..Len(backupHistory) :
      backupHistory[i].status = "completed" => backupHistory[i].id \in DOMAIN libFiles

\* C38: the storageUsed metric is never negative, and the size of a backup
\* is subtracted at most once: a deleteBackup call that subtracts a size
\* removes the record from the store in the same step, also when two calls
\* for one backup id interleave at their chunk deletions.
C38_SizeSubtractedOnce ==
  [][/\ metrics'.storageUsed >= 0
     /\ \A d \in DOMAIN del :
          (del[d].pc = "unlink" /\ del'[d].pc = "done"
           /\ metrics'.storageUsed # metrics.storageUsed)
          => del[d].backupId \in DOMAIN backups]_vars

\* --------------------------------------------------------- specifications
BackupStep(c) ==
  \/ \E v \in VmNames, sv \in BOOLEAN : CreateBackup(c, v, sv)
  \/ \E ok \in BOOLEAN : BackupGetVmInfo(c, ok)
  \/ \E ok \in BOOLEAN : BackupStopVm(c, ok)
  \/ \E iv \in IVs, stage \in {"none", "copy", "compress", "encrypt"} :
        BackupPrepare(c, stage, iv)
  \/ \E ok \in BOOLEAN : BackupUploadChunk(c, ok)
  \/ \E ok \in BOOLEAN, dl \in BOOLEAN : BackupFinish(c, ok, dl)
  \/ \E ok \in BOOLEAN : BackupSave(c, ok)
  \/ \E ok \in BOOLEAN : BackupRestartVm(c, ok)

RestoreStep(r) ==
  \/ \E id \in BackupIds \cup {NoBackupId}, optVm \in {"none", "ghost"} :
        RestoreBackup(r, id, optVm)
  \/ \E ok \in BOOLEAN : RestoreDownloadChunk(r, ok)
  \/ \E ok \in BOOLEAN : RestoreDecode(r, ok)
  \/ \E ok \in BOOLEAN : RestoreGetVmInfo(r, ok)
  \/ \E ok \in BOOLEAN : RestoreStopVm(r, ok)
  \/ \E ok \in BOOLEAN : RestoreCopy(r, ok)
  \/ \E ok \in BOOLEAN : RestoreStartVm(r, ok)

LibBackupStep(c) ==
  \/ \E v \in VmNames, o \in LibOptions : LibCreateBackup(c, v, o)
  \/ \E ok \in BOOLEAN : LibGetVmInfo(c, ok)
  \/ \E ok \in BOOLEAN : LibPrepare(c, ok)
  \/ \E ok \in BOOLEAN : LibVmStatus(c, ok)
  \/ \E ok \in BOOLEAN : LibStopVm(c, ok)
  \/ \E ok \in BOOLEAN : LibCreateArchive(c, ok)
  \/ \E ok \in BOOLEAN : LibCompress(c, ok)
  \/ \E ok \in BOOLEAN, iv \in IVs : LibEncrypt(c, ok, iv)
  \/ \E ok \in BOOLEAN : LibFinalize(c, ok)
  \/ \E ok \in BOOLEAN : LibRestartVm(c, ok)
  \/ LibCleanupOldBackups(c)

LibRestoreStep(r) ==
  \/ \E id \in BackupIds \cup {NoBackupId}, tgt \in {"none", "ghost"}, ow \in BOOLEAN :
        LibRestoreBackup(r, id, tgt, ow)
  \/ \E ok \in BOOLEAN : LibRestoreAccess(r, ok)
  \/ \E ok \in BOOLEAN : LibRestoreVmExists(r, ok)
  \/ \E ok \in BOOLEAN : LibRestoreVmStatus(r, ok)
  \/ \E ok \in BOOLEAN : LibRestoreStopVm(r, ok)
  \/ \E ok \in BOOLEAN : LibRestoreBody(r, ok)

\* concurrent createBackup calls
NextBackup ==
  \/ \E c \in BackupIds : BackupStep(c)
  \/ \E c \in BackupIds : LibBackupStep(c)

SpecBackup == Init /\ [][NextBackup]_vars

\* one createBackup call and concurrent restoreBackup calls
NextRestore ==
  \/ BackupStep(1)
  \/ LibBackupStep(1)
  \/ \E r \in RestoreCalls : RestoreStep(r)
  \/ \E r \in RestoreCalls : LibRestoreStep(r)

SpecRestore == Init /\ [][NextRestore]_vars

\* one createBackup call and one restoreBackup call, with the clock and the
\* timeout sweep
NextSweep ==
  \/ BackupStep(1)
  \/ LibBackupStep(1)
  \/ RestoreStep(1)
  \/ LibRestoreStep(1)
  \/ CheckStuckOperations
  \/ Tick

SpecSweep == Init /\ [][NextSweep]_vars

\* one createBackup call of the chunked service, with damage to stored chunks
NextIntegrity ==
  \/ BackupStep(1)
  \/ \E key \in StorageKeys, lost \in BOOLEAN : CorruptChunk(key, lost)
  \/ Tick

SpecIntegrity == Init /\ [][NextIntegrity]_vars

DeleteStep(d) ==
  \/ \E id \in BackupIds \cup {NoBackupId} : DeleteBackup(d, id)
  \/ \E ok \in BOOLEAN : DeleteChunk(d, ok)
  \/ \E ok \in BOOLEAN : DeleteFinish(d, ok)

\* createBackup of a running VM, left running
PlainBackupStep(c) ==
  \/ CreateBackup(c, "vm1", FALSE)
  \/ \E ok \in BOOLEAN : BackupGetVmInfo(c, ok)
  \/ \E iv \in IVs, stage \in {"none", "copy", "compress", "encrypt"} :
        BackupPrepare(c, stage, iv)
  \/ \E ok \in BOOLEAN : BackupUploadChunk(c, ok)
  \/ \E ok \in BOOLEAN, dl \in BOOLEAN : BackupFinish(c, ok, dl)
  \/ \E ok \in BOOLEAN : BackupSave(c, ok)

\* createBackup calls and concurrent deleteBackup calls of the chunked service
NextDelete ==
  \/ \E c \in BackupIds : PlainBackupStep(c)
  \/ \E d \in DeleteCalls : DeleteStep(d)

SpecDelete == Init /\ [][NextDelete]_vars

\* createBackup of a running VM, left running, where only getVmInfo can fail
SteadyBackupStep(c) ==
  \/ CreateBackup(c, "vm1", FALSE)
  \/ \E ok \in BOOLEAN : BackupGetVmInfo(c, ok)
  \/ \E iv \in IVs : BackupPrepare(c, "none", iv)
  \/ BackupUploadChunk(c, TRUE)
  \/ BackupFinish(c, TRUE, TRUE)
  \/ BackupSave(c, TRUE)

\* the service constructed with the default configuration
InitDefault == Init /\ config = DefaultConfig

\* the scheduled jobs of the chunked service over days, with manual
\* createBackup calls; createBackup calls of the lib service, each ending in
\* cleanupOldBackups
NextRetention ==
  \/ \E c \in BackupIds : SteadyBackupStep(c)
  \/ \E type \in ScheduleTypes : ScheduledFire(type)
  \/ \E ok \in BOOLEAN : SchedGetVmList(ok)
  \/ SchedBackupReturned
  \/ SchedDeleteReturned
  \/ \E ok \in BOOLEAN : DeleteChunk(RetentionCall, ok)
  \/ \E ok \in BOOLEAN : DeleteFinish(RetentionCall, ok)
  \/ \E c \in BackupIds : LibBackupStep(c)
  \/ \E v \in VmNames : LimaStop(v)
  \/ \E dt \in {1, DayMs} : Elapse(dt)

SpecRetention == InitDefault /\ [][NextRetention]_vars

\* one fire of a scheduled job of the chunked service over the VMs that run
NextSchedule ==
  \/ \E c \in BackupIds : PlainBackupStep(c)
  \/ \E type \in ScheduleTypes : ScheduledFire(type)
  \/ \E ok \in BOOLEAN : SchedGetVmList(ok)
  \/ SchedBackupReturned
  \/ \E v \in VmNames : LimaStart(v)
  \/ \E v \in VmNames : LimaStop(v)

SpecSchedule == InitDefault /\ [][NextSchedule]_vars

\* restoreBackup calls on a service that has loaded the metadata of a backup
NextReassembly ==
  \/ \E r \in RestoreCalls : RestoreStep(r)

SpecReassembly == InitLoaded /\ [][NextReassembly]_vars

====
